---- MODULE Spec2Model ----
(***************************************************************************)
(* Rate matching, tax-basis conversion and PIT-38 aggregation of           *)
(* cryptohub (src/cryptohub/tax_processor.py, src/cryptohub/transaction.py)*)
(* with the rate download (src/cryptohub/nbp.py) and the run that loads    *)
(* the trades file and presents the form (src/cryptohub/addin_taxpl.py).   *)
(*                                                                         *)
(* Representation.                                                         *)
(*   - A calendar date is its proleptic Gregorian ordinal                  *)
(*     (datetime.date.toordinal()): date.min is ordinal 1, and             *)
(*     date - timedelta raises OverflowError below it.  The modelled       *)
(*     dates lie around the boundary of years 1 and 2 (ordinals 365|366),  *)
(*     both of which have 365 days.                                        *)
(*   - Decimal amounts are exact integers in fixed units: total_cost and   *)
(*     fee in 10^-3, rates in 10^-1, converted costs (their product) and   *)
(*     the carry-forward in 10^-4, quantized form fields in 10^-2 (cents). *)
(*   - A str that the code upper-cases is a sequence of one-letter         *)
(*     strings, so that str.upper() is computed letter by letter.          *)
(***************************************************************************)
EXTENDS Integers, Sequences, FiniteSets, TLC

VARIABLES
    transactions,       \* argument: list[Transaction]
    rates_by_currency,  \* argument: dict[str, dict[date, ExchangeRate]]; a currency
                        \* maps to [present, rates], present = it is a key of the dict
    settlement_day,     \* argument: int
    pc,                 \* position of the caller: load, stopped, fetch, entry, loop,
                        \* scan, returned, raised, aggregated, presented
    idx,                \* number of list elements the for loop has finished
    looked_up,          \* trade ids for which rates_by_currency.get() was evaluated
    days_back,          \* local of the scan
    search_limit,       \* local of the scan
    search_dates,       \* value of search_date at each break of the scan
    tax_transactions,   \* the list being built / returned
    err,                \* exception that left create_tax_transactions, or None
    pit38,              \* the calls of calculate_pit_38 made so far: arguments and result
    nbp,                \* locals of NBPClient.get_rates_for_transactions and the
                        \* windows it has requested
    rows,               \* the rows of the trades file
    output,             \* what has been printed to the console and written to the log
    menu,               \* MenuManager.interactive_menu: position, configuration,
                        \* selections made and calls made
    kraken,             \* KrakenAPI.download_all_trades: locals, the responses
                        \* received and the value returned
    binance             \* BinanceAPI: fields of the object, the futures of
                        \* download_all_trades and the locals of its threads

vars == <<transactions, rates_by_currency, settlement_day, pc, idx, looked_up,
          days_back, search_limit, search_dates, tax_transactions, err, pit38,
          nbp, rows, output, menu, kraken, binance>>

\* The variables outside create_tax_transactions and calculate_pit_38
ioVars == <<nbp, rows, output>>

\* The variables of the tax run
taxVars == <<transactions, rates_by_currency, settlement_day, pc, idx, looked_up,
             days_back, search_limit, search_dates, tax_transactions, err, pit38,
             nbp, rows, output>>

\* The variables of the menu and of the exchange clients
appVars == <<menu, kraken, binance>>

None == "None"

\* A line of output: the stream it goes to, its text and the number in it
Message(stream, text, n) == [stream |-> stream, text |-> text, n |-> n]

\* interactive_menu not called
MenuIdle ==
    [pc |-> "idle",
     config |-> [kraken_accounts |-> <<>>, binance_accounts |-> <<>>],
     original |-> [kraken_accounts |-> <<>>, binance_accounts |-> <<>>],
     selections |-> <<>>, calls |-> <<>>, handled |-> <<>>, exits |-> <<>>]

\* KrakenAPI.download_all_trades not called
KrakenIdle ==
    [pc |-> "idle", offset |-> 0, transactions |-> <<>>, responses |-> <<>>,
     offsets |-> <<>>, returned |-> <<>>]

\* BinanceAPI.download_all_trades not called
BinanceIdle == [pc |-> "idle"]

\* The menu and the exchange clients are not running
AppIdle == menu = MenuIdle /\ kraken = KrakenIdle /\ binance = BinanceIdle

\* get_rates_for_transactions not called
NbpIdle ==
    [pc |-> "idle", todo |-> <<>>, currency |-> None, min_date |-> 0,
     max_date |-> 0, chunk_start |-> 0, all_rates |-> <<>>, requests |-> <<>>]

-----------------------------------------------------------------------------
(* Bounds of the explored inputs *)

MaxTrades == 2          \* longest trade list of the matching runs
MaxTaxTrades == 3       \* longest trade list of the aggregation runs
NumRateDays == 3        \* consecutive days that a rate table may hold
MaxOffset == 2          \* largest |settlement_day| of the matching runs
MaxNbpTrades == 2       \* longest trade list of the rate downloads
MaxRows == 2            \* most rows of a trades file
MaxSelections == 2      \* longest run of menu selections before 'Exit'
MaxKrakenTrades == 3    \* most trades of a Kraken account
MaxSymbols == 3         \* most symbols of pair_mapping
MaxPoolErrors == 2      \* most requests that fail while several symbols download
MaxSymbolErrors == 5    \* most requests that fail while one symbol downloads
MaxFullPages == 1       \* most responses of a download that carry limit trades

(* Program constants *)

DateMin == 1            \* datetime.date.min.toordinal()
DaysPerYear == 365      \* length of the years 1 and 2 of the calendar
MarginDays == 7         \* nbp.py line 76: timedelta(days=7)
WindowDays == 367       \* nbp.py line 81: window_days
max_retries == 5        \* binance.py line 30: self.max_retries
PageLimit == 1000       \* binance.py line 138: limit
max_workers == 3        \* binance.py line 222: ThreadPoolExecutor(max_workers=3)
TimestampError == -1021 \* binance.py line 169: e.code == -1021
RateLimitError == -1003 \* binance.py line 174: e.code == -1003

-----------------------------------------------------------------------------
(* Dates *)

\* date - timedelta(days = n) raises OverflowError below date.min
DateUnderflows(d, n) == d - n < DateMin

\* datetime.year of an ordinal of the years 1..3 (no leap year among them)
YearOf(d) == 1 + ((d - 1) \div DaysPerYear)

\* Matching runs: tables over date.min and the NumRateDays days that follow
\* it, trades from the third of these days to the day after the last
RateDays == DateMin .. (DateMin + NumRateDays)
TradeDays == (DateMin + 2) .. (DateMin + NumRateDays + 1)

\* Aggregation runs: the last three days of year 1 and the first of year 2
YearEndDays == (DaysPerYear - 2) .. (DaysPerYear + 1)

\* Long scans: a trade two months after date.min
FarTradeDays == {DateMin + 62, DateMin + 63}

-----------------------------------------------------------------------------
(* Strings that are upper-cased *)

UpperChar(c) ==
    CASE c = "b" -> "B" [] c = "u" -> "U" [] c = "y" -> "Y"
      [] c = "s" -> "S" [] c = "e" -> "E" [] c = "l" -> "L"
      [] c = "d" -> "D" [] c = "p" -> "P" [] c = "o" -> "O"
      [] c = "i" -> "I" [] c = "t" -> "T"
      [] OTHER -> c

\* str.upper()
Upper(s) == [k \in DOMAIN s |-> UpperChar(s[k])]

BUY == <<"B", "U", "Y">>
SELL == <<"S", "E", "L", "L">>

-----------------------------------------------------------------------------
(* transaction.py *)

\* The rate the provider publishes for a currency and day (tenths)
PublishedRate(currency, d) ==
    IF currency = "EUR" THEN 43 + (d % 4) ELSE 10 + (d % 3)

ExchangeRate(currency, d) ==
    [rate_date |-> d, rate |-> PublishedRate(currency, d),
     base_currency |-> currency, quote_currency |-> "PLN"]

\* A rate table over a set of days
RateTable(currency, days) == [d \in days |-> ExchangeRate(currency, d)]

Transaction(id, currency, day, type, cost, fee) ==
    [trade_id |-> id, quote_currency |-> currency, timestamp |-> day,
     trade_type |-> type, total_cost |-> cost, fee |-> fee]

\* TransactionForTax comparing the trade type without upper-casing it
TransactionForTaxNoUpper(transaction, tax_exchange_rate) ==
    [transaction |-> transaction,
     tax_exchange_rate |-> tax_exchange_rate,
     total_cost_tax_currency |->
        IF transaction.trade_type = BUY
        THEN (transaction.total_cost + transaction.fee) * tax_exchange_rate.rate
        ELSE (transaction.total_cost - transaction.fee) * tax_exchange_rate.rate]

\* TransactionForTax(transaction, tax_exchange_rate) with __post_init__
TransactionForTax(transaction, tax_exchange_rate) ==
    [transaction |-> transaction,
     tax_exchange_rate |-> tax_exchange_rate,
     total_cost_tax_currency |->
        IF Upper(transaction.trade_type) = BUY
        THEN (transaction.total_cost + transaction.fee) * tax_exchange_rate.rate
        ELSE (transaction.total_cost - transaction.fee) * tax_exchange_rate.rate]

-----------------------------------------------------------------------------
(* tax_processor.py: create_tax_transactions *)

Abs(n) == IF n < 0 THEN -n ELSE n

\* The validation letting the offset 1 pass
SettlementRejectedAboveOne(s) == s > 1

\* line 26: if settlement_day > 0
SettlementRejected(s) == s > 0

\* The loop without the reporting-currency test
IsReportingCurrencyNever(currency) == currency = "PLN" /\ FALSE

\* line 32: transaction.quote_currency == "PLN"
IsReportingCurrency(currency) == currency = "PLN"

\* The test "is None" in place of "not": an empty table is scanned
NoRatesOnlyNone(rates, currency) == ~rates[currency].present

\* lines 35-36: not rates_by_currency.get(currency) (no key, or an empty dict)
NoRates(rates, currency) ==
    \/ ~rates[currency].present
    \/ DOMAIN rates[currency].rates = {}

\* An exchange_rate that never passes the test of line 60
IsTruthyNever(exchange_rate) == exchange_rate.rate # exchange_rate.rate

\* line 60: if exchange_rate, for an instance of the dataclass ExchangeRate,
\* which defines neither __bool__ nor __len__
IsTruthy(exchange_rate) == exchange_rate.rate = exchange_rate.rate

\* The loop counting the dates absent from the table as well
ScanStepCountingAbsent(currency_rates, tx_date, back, limit) ==
    IF DateUnderflows(tx_date, back)
    THEN [kind |-> "OverflowError", search_date |-> DateMin,
          days_back |-> back, search_limit |-> limit]
    ELSE LET search_date == tx_date - back IN
         IF search_date \in DOMAIN currency_rates
         THEN [kind |-> IF back + 1 >= limit THEN "break" ELSE "hit",
               search_date |-> search_date,
               days_back |-> back + 1, search_limit |-> limit]
         ELSE [kind |-> "miss", search_date |-> search_date,
               days_back |-> back + 1, search_limit |-> limit]

\* The loop testing line 56 also after a date absent from the table
ScanStepBreakOnMiss(currency_rates, tx_date, back, limit) ==
    IF DateUnderflows(tx_date, back)
    THEN [kind |-> "OverflowError", search_date |-> DateMin,
          days_back |-> back, search_limit |-> limit]
    ELSE LET search_date == tx_date - back IN
         IF search_date \in DOMAIN currency_rates
         THEN [kind |-> IF back + 1 >= limit THEN "break" ELSE "hit",
               search_date |-> search_date,
               days_back |-> back + 1, search_limit |-> limit]
         ELSE [kind |-> IF back + 1 >= limit + 1 THEN "break" ELSE "miss",
               search_date |-> search_date,
               days_back |-> back + 1, search_limit |-> limit + 1]

\* lines 46-58: one iteration of the while True loop from days_back =
\* back and search_limit = limit: OverflowError of the subtraction of line 47, a date absent
\* from the table (lines 51-54), a date present without (lines 49-50, 56) or
\* with (lines 56-58) the break
ScanStep(currency_rates, tx_date, back, limit) ==
    IF DateUnderflows(tx_date, back)
    THEN [kind |-> "OverflowError", search_date |-> DateMin,
          days_back |-> back, search_limit |-> limit]
    ELSE LET search_date == tx_date - back IN
         IF search_date \in DOMAIN currency_rates
         THEN [kind |-> IF back + 1 >= limit THEN "break" ELSE "hit",
               search_date |-> search_date,
               days_back |-> back + 1, search_limit |-> limit]
         ELSE [kind |-> "miss", search_date |-> search_date,
               days_back |-> back + 1, search_limit |-> limit + 1]

\* lines 46-58 run to their end: the iteration that leaves the loop
RECURSIVE ScanFrom(_, _, _, _)
ScanFrom(currency_rates, tx_date, back, limit) ==
    LET step == ScanStep(currency_rates, tx_date, back, limit)
    IN  IF step.kind \in {"miss", "hit"}
        THEN ScanFrom(currency_rates, tx_date, step.days_back, step.search_limit)
        ELSE step

\* lines 31-70 over the trades left, acc being tax_transactions so far
RECURSIVE MatchFrom(_, _, _, _)
MatchFrom(trades, rates, s, acc) ==
    IF trades = <<>> THEN [err |-> None, result |-> acc]
    ELSE LET t == Head(trades) IN
         IF IsReportingCurrency(t.quote_currency) \/ NoRates(rates, t.quote_currency)
         THEN MatchFrom(Tail(trades), rates, s, acc)
         ELSE LET currency_rates == rates[t.quote_currency].rates
                  step == ScanFrom(currency_rates, t.timestamp, 0, Abs(s))
              IN  IF step.kind = "OverflowError" \/ step.search_date \notin DOMAIN currency_rates
                  THEN [err |-> IF step.kind = "OverflowError"
                                THEN "OverflowError" ELSE "KeyError",
                        result |-> acc]
                  ELSE MatchFrom(Tail(trades), rates, s,
                                 IF IsTruthy(currency_rates[step.search_date])
                                 THEN Append(acc, TransactionForTax(t,
                                                     currency_rates[step.search_date]))
                                 ELSE acc)

\* create_tax_transactions(transactions, rates_by_currency, settlement_day)
\* as a function of its arguments: the exception raised, if any, and the
\* list returned
create_tax_transactions(trades, rates, s) ==
    IF SettlementRejected(s) THEN [err |-> "ValueError", result |-> <<>>]
    ELSE MatchFrom(trades, rates, s, <<>>)

Current == transactions[idx + 1]
InLoop == pc = "loop" /\ idx < Len(transactions)
CurrentRates == rates_by_currency[Current.quote_currency].rates
CurrentStep == ScanStep(CurrentRates, Current.timestamp, days_back, search_limit)

\* lines 26-27
RaiseValueError ==
    /\ pc = "entry"
    /\ SettlementRejected(settlement_day)
    /\ pc' = "raised"
    /\ err' = "ValueError"
    /\ UNCHANGED <<transactions, rates_by_currency, settlement_day, idx, looked_up,
                   days_back, search_limit, search_dates, tax_transactions, pit38>>
    /\ UNCHANGED ioVars
    /\ UNCHANGED appVars

\* lines 26-29
Enter ==
    /\ pc = "entry"
    /\ ~SettlementRejected(settlement_day)
    /\ pc' = "loop"
    /\ tax_transactions' = <<>>
    /\ UNCHANGED <<transactions, rates_by_currency, settlement_day, idx, looked_up,
                   days_back, search_limit, search_dates, err, pit38>>
    /\ UNCHANGED ioVars
    /\ UNCHANGED appVars

\* The PLN trade kept as a tax transaction at the rate 1.0
SkipPLNConverting ==
    /\ InLoop
    /\ IsReportingCurrency(Current.quote_currency)
    /\ tax_transactions' =
          Append(tax_transactions,
                 [transaction |-> Current,
                  tax_exchange_rate |-> [rate_date |-> Current.timestamp, rate |-> 10,
                                         base_currency |-> "PLN",
                                         quote_currency |-> "PLN"],
                  total_cost_tax_currency |-> Current.total_cost * 10])
    /\ idx' = idx + 1
    /\ UNCHANGED <<transactions, rates_by_currency, settlement_day, pc, looked_up,
                   days_back, search_limit, search_dates, err, pit38>>
    /\ UNCHANGED ioVars
    /\ UNCHANGED appVars

\* lines 31-33
SkipPLN ==
    /\ InLoop
    /\ IsReportingCurrency(Current.quote_currency)
    /\ idx' = idx + 1
    /\ UNCHANGED <<transactions, rates_by_currency, settlement_day, pc, looked_up,
                   days_back, search_limit, search_dates, tax_transactions, err,
                   pit38>>
    /\ UNCHANGED ioVars
    /\ UNCHANGED appVars

\* lines 35-38
SkipNoRates ==
    /\ InLoop
    /\ ~IsReportingCurrency(Current.quote_currency)
    /\ NoRates(rates_by_currency, Current.quote_currency)
    /\ looked_up' = looked_up \cup {Current.trade_id}
    /\ idx' = idx + 1
    /\ UNCHANGED <<transactions, rates_by_currency, settlement_day, pc,
                   days_back, search_limit, search_dates, tax_transactions, err,
                   pit38>>
    /\ output' = Append(output, Message("log", "No rates found for currency", 0))
    /\ UNCHANGED <<nbp, rows>>
    /\ UNCHANGED appVars

\* lines 35-45
BeginScan ==
    /\ InLoop
    /\ ~IsReportingCurrency(Current.quote_currency)
    /\ ~NoRates(rates_by_currency, Current.quote_currency)
    /\ looked_up' = looked_up \cup {Current.trade_id}
    /\ days_back' = 0
    /\ search_limit' = Abs(settlement_day)
    /\ pc' = "scan"
    /\ UNCHANGED <<transactions, rates_by_currency, settlement_day, idx,
                   search_dates, tax_transactions, err, pit38>>
    /\ UNCHANGED ioVars
    /\ UNCHANGED appVars

\* line 47 raising
ScanOverflow ==
    /\ pc = "scan"
    /\ CurrentStep.kind = "OverflowError"
    /\ pc' = "raised"
    /\ err' = "OverflowError"
    /\ UNCHANGED <<transactions, rates_by_currency, settlement_day, idx, looked_up,
                   days_back, search_limit, search_dates, tax_transactions, pit38>>
    /\ UNCHANGED ioVars
    /\ UNCHANGED appVars

\* lines 47-54
ScanMiss ==
    /\ pc = "scan"
    /\ CurrentStep.kind = "miss"
    /\ days_back' = CurrentStep.days_back
    /\ search_limit' = CurrentStep.search_limit
    /\ UNCHANGED <<transactions, rates_by_currency, settlement_day, pc, idx,
                   looked_up, search_dates, tax_transactions, err, pit38>>
    /\ UNCHANGED ioVars
    /\ UNCHANGED appVars

\* lines 47-50 and 56, the test of line 56 failing
ScanHit ==
    /\ pc = "scan"
    /\ CurrentStep.kind = "hit"
    /\ days_back' = CurrentStep.days_back
    /\ search_limit' = CurrentStep.search_limit
    /\ UNCHANGED <<transactions, rates_by_currency, settlement_day, pc, idx,
                   looked_up, search_dates, tax_transactions, err, pit38>>
    /\ UNCHANGED ioVars
    /\ UNCHANGED appVars

\* lines 47-50 and 56-70: the break, the dict access of line 57 (KeyError for
\* a date that is no key) and the TransactionForTax appended, or the warning
\* of lines 66-70 for an exchange_rate that is not truthy
ScanBreak ==
    /\ pc = "scan"
    /\ CurrentStep.kind = "break"
    /\ days_back' = CurrentStep.days_back
    /\ search_limit' = CurrentStep.search_limit
    /\ IF CurrentStep.search_date \in DOMAIN CurrentRates
       THEN /\ search_dates' = Append(search_dates, CurrentStep.search_date)
            /\ IF IsTruthy(CurrentRates[CurrentStep.search_date])
               THEN /\ tax_transactions' =
                          Append(tax_transactions,
                                 TransactionForTax(Current,
                                                   CurrentRates[CurrentStep.search_date]))
                    /\ output' = output
               ELSE /\ tax_transactions' = tax_transactions
                    /\ output' = Append(output, Message("log", "No exchange rate found", 0))
            /\ idx' = idx + 1
            /\ pc' = "loop"
            /\ err' = err
       ELSE /\ pc' = "raised"
            /\ err' = "KeyError"
            /\ UNCHANGED <<idx, search_dates, tax_transactions, output>>
    /\ UNCHANGED <<transactions, rates_by_currency, settlement_day, looked_up, pit38,
                   nbp, rows>>
    /\ UNCHANGED appVars

\* line 72
Return ==
    /\ pc = "loop"
    /\ idx = Len(transactions)
    /\ pc' = "returned"
    /\ UNCHANGED <<transactions, rates_by_currency, settlement_day, idx, looked_up,
                   days_back, search_limit, search_dates, tax_transactions, err,
                   pit38>>
    /\ UNCHANGED ioVars
    /\ UNCHANGED appVars

-----------------------------------------------------------------------------
(* tax_processor.py: Pit38Data and calculate_pit_38 *)

\* quantize(Decimal('0.01')) rounding ties away from zero
QuantizeCentsHalfUp(x) ==
    LET m == Abs(x)
        q == m \div 100
        n == IF m % 100 >= 50 THEN q + 1 ELSE q
    IN  IF x < 0 THEN -n ELSE n

\* Decimal.quantize(Decimal('0.01')) of a value in 10^-4, result in cents
\* (ROUND_HALF_EVEN of the default context)
QuantizeCents(x) ==
    LET m == Abs(x)
        q == m \div 100
        r == m % 100
        up == r > 50 \/ (r = 50 /\ q % 2 = 1)
        n == IF up THEN q + 1 ELSE q
    IN  IF x < 0 THEN -n ELSE n

\* Pit38Data with the tax taken on the net of the unrounded inputs
Pit38DataTaxOnExactNet(year, income, costs, previous) ==
    LET f34 == QuantizeCents(income)
        f35 == QuantizeCents(costs)
        f36 == QuantizeCents(previous)
        result == f34 - (f35 + f36)
        exact == income - (costs + previous)
    IN  [year |-> year,
         field34_income |-> f34,
         field35_costs_current_year |-> f35,
         field36_costs_previous_years |-> f36,
         field37_tax_base |-> IF result > 0 THEN result ELSE 0,
         field38_loss |-> IF result > 0 THEN 0 ELSE Abs(result),
         field39_tax |-> IF result > 0 THEN QuantizeCents((exact * 19) \div 100) ELSE 0]

\* Pit38Data with the loss left signed
Pit38DataSignedLoss(year, income, costs, previous) ==
    LET f34 == QuantizeCents(income)
        f35 == QuantizeCents(costs)
        f36 == QuantizeCents(previous)
        result == f34 - (f35 + f36)
    IN  [year |-> year,
         field34_income |-> f34,
         field35_costs_current_year |-> f35,
         field36_costs_previous_years |-> f36,
         field37_tax_base |-> IF result > 0 THEN result ELSE 0,
         field38_loss |-> IF result > 0 THEN 0 ELSE result,
         field39_tax |-> IF result > 0 THEN QuantizeCents(result * 19) ELSE 0]

\* Pit38Data(year, field34_income, field35_costs_current_year,
\*           field36_costs_previous_years) with __post_init__
Pit38Data(year, income, costs, previous) ==
    LET f34 == QuantizeCents(income)
        f35 == QuantizeCents(costs)
        f36 == QuantizeCents(previous)
        total_costs == f35 + f36
        result == f34 - total_costs
    IN  [year |-> year,
         field34_income |-> f34,
         field35_costs_current_year |-> f35,
         field36_costs_previous_years |-> f36,
         field37_tax_base |-> IF result > 0 THEN result ELSE 0,
         field38_loss |-> IF result > 0 THEN 0 ELSE Abs(result),
         field39_tax |-> IF result > 0 THEN QuantizeCents(result * 19) ELSE 0]

\* The sum of the amounts rounded to cents one by one
RECURSIVE SumOfTypeRounded(_, _)
SumOfTypeRounded(txs, type) ==
    IF txs = <<>> THEN 0
    ELSE (IF Upper(Head(txs).transaction.trade_type) = type
          THEN 100 * QuantizeCents(Head(txs).total_cost_tax_currency) ELSE 0)
         + SumOfTypeRounded(Tail(txs), type)

\* sum(tx.total_cost_tax_currency for tx in txs if tx...trade_type.upper() == type)
RECURSIVE SumOfType(_, _)
SumOfType(txs, type) ==
    IF txs = <<>> THEN 0
    ELSE (IF Upper(Head(txs).transaction.trade_type) = type
          THEN Head(txs).total_cost_tax_currency ELSE 0)
         + SumOfType(Tail(txs), type)

\* The year filter stopping at the first transaction of another year
YearTransactionsUntilOtherYear(txs, for_year) ==
    LET others == {k \in DOMAIN txs : YearOf(txs[k].transaction.timestamp) # for_year}
        stop == IF others = {} THEN Len(txs) + 1
                ELSE CHOOSE k \in others : \A j \in others : k <= j
    IN  SubSeq(txs, 1, stop - 1)

\* The year filter taken on the date of the matched rate
YearTransactionsByRateDate(txs, for_year) ==
    SelectSeq(txs, LAMBDA tx : YearOf(tx.tax_exchange_rate.rate_date) = for_year)

\* lines 127-130
YearTransactions(txs, for_year) ==
    SelectSeq(txs, LAMBDA tx : YearOf(tx.transaction.timestamp) = for_year)

calculate_pit_38(txs, for_year, previous_year_cost_field36) ==
    LET year_transactions == YearTransactions(txs, for_year)
        income == SumOfType(year_transactions, SELL)
        current_year_costs == SumOfType(year_transactions, BUY)
    IN  Pit38Data(for_year, income, current_year_costs, previous_year_cost_field36)

Years == {1, 2}
Carries == {0, 1250, -500000}

\* addin_taxpl.py lines 447-455: the log line on the list returned and
\* calculate_pit_38(tax_transactions, tax_year, previous_year_cost)
CalculatePit38 ==
    /\ pc = "returned"
    /\ \E for_year \in Years, carry \in Carries :
          pit38' = Append(pit38,
                          [for_year |-> for_year, carry |-> carry,
                           data |-> calculate_pit_38(tax_transactions, for_year, carry)])
    /\ pc' = "aggregated"
    /\ output' = Append(output, Message("log", "Mapped transactions with rates",
                                        Len(tax_transactions)))
    /\ UNCHANGED <<transactions, rates_by_currency, settlement_day, idx, looked_up,
                   days_back, search_limit, search_dates, tax_transactions, err,
                   nbp, rows>>
    /\ UNCHANGED appVars

-----------------------------------------------------------------------------
(* nbp.py: NBPClient *)

\* The provider publishes no rate on two days of each week
IsPublished(d) == d % 7 \notin {0, 6}

\* get_exchange_rates(currency, start_date, end_date): the published rates of
\* the window, or {} when the request fails or the response is invalid
\* (lines 56-61); answered says which
get_exchange_rates(currency, start_date, end_date, answered) ==
    IF answered
    THEN RateTable(currency, {d \in start_date..end_date : IsPublished(d)})
    ELSE RateTable(currency, {})

\* The chunk taking the place of the rates collected before it
UpdateReplacing(all_rates, chunk) == [d \in DOMAIN chunk |-> chunk[d]]

\* dict.update
Update(all_rates, chunk) ==
    [d \in DOMAIN all_rates \cup DOMAIN chunk |->
        IF d \in DOMAIN chunk THEN chunk[d] ELSE all_rates[d]]

\* lines 68-71: the keys of currency_dates in insertion order
CurrencyOrder(trades) ==
    LET firsts == {k \in DOMAIN trades :
                      /\ trades[k].quote_currency # "PLN"
                      /\ \A j \in 1..(k - 1) :
                            trades[j].quote_currency # trades[k].quote_currency}
    IN  [i \in 1..Cardinality(firsts) |->
            trades[CHOOSE k \in firsts :
                      Cardinality({j \in firsts : j < k}) = i - 1].quote_currency]

\* lines 68-71: currency_dates[currency]
DatesOf(trades, currency) ==
    {trades[k].timestamp : k \in {j \in DOMAIN trades : trades[j].quote_currency = currency}}

MinOf(S) == CHOOSE x \in S : \A y \in S : x <= y
MaxOf(S) == CHOOSE x \in S : \A y \in S : y <= x

\* The window of line 85 one day longer
ChunkEndLonger(chunk_start, max_date) ==
    MinOf({chunk_start + WindowDays, max_date})

\* line 85: min(chunk_start + timedelta(days=window_days - 1), max_date)
ChunkEnd(chunk_start, max_date) ==
    MinOf({chunk_start + (WindowDays - 1), max_date})

\* line 94: chunk_end + timedelta(days=1)
NextChunkStart(chunk_end) == chunk_end + 1

\* lines 68-73
NbpGroup ==
    /\ nbp.pc = "entry"
    /\ nbp' = [nbp EXCEPT !.pc = "currencies", !.todo = CurrencyOrder(transactions)]
    /\ rates_by_currency' =
          [c \in DOMAIN rates_by_currency |-> [present |-> FALSE, rates |-> RateTable(c, {})]]
    /\ UNCHANGED <<transactions, settlement_day, pc, idx, looked_up, days_back,
                   search_limit, search_dates, tax_transactions, err, pit38,
                   rows, output>>
    /\ UNCHANGED appVars

\* lines 75-82
NbpNextCurrency ==
    /\ nbp.pc = "currencies"
    /\ nbp.todo # <<>>
    /\ LET currency == Head(nbp.todo)
           dates == DatesOf(transactions, currency)
       IN  nbp' = [nbp EXCEPT !.pc = "chunks",
                              !.currency = currency,
                              !.min_date = MinOf(dates) - MarginDays,
                              !.max_date = MaxOf(dates),
                              !.all_rates = RateTable(currency, {}),
                              !.chunk_start = MinOf(dates) - MarginDays]
    /\ UNCHANGED <<transactions, rates_by_currency, settlement_day, pc, idx,
                   looked_up, days_back, search_limit, search_dates,
                   tax_transactions, err, pit38, rows, output>>
    /\ UNCHANGED appVars

\* lines 84-94: one iteration of the while loop
NbpChunk ==
    /\ nbp.pc = "chunks"
    /\ nbp.chunk_start <= nbp.max_date
    /\ \E answered \in BOOLEAN :
          LET chunk_end == ChunkEnd(nbp.chunk_start, nbp.max_date)
              chunk == get_exchange_rates(nbp.currency, nbp.chunk_start, chunk_end,
                                          answered)
          IN  /\ nbp' = [nbp EXCEPT
                            !.requests = Append(@, [currency |-> nbp.currency,
                                                    chunk_start |-> nbp.chunk_start,
                                                    chunk_end |-> chunk_end,
                                                    rate_dates |-> DOMAIN chunk]),
                            !.all_rates = Update(@, chunk),
                            !.chunk_start = NextChunkStart(chunk_end)]
              /\ output' = IF DOMAIN chunk = {}
                           THEN Append(output, Message("log", "Failed to fetch rates", 0))
                           ELSE output
    /\ UNCHANGED <<transactions, rates_by_currency, settlement_day, pc, idx,
                   looked_up, days_back, search_limit, search_dates,
                   tax_transactions, err, pit38, rows>>
    /\ UNCHANGED appVars

\* lines 84 and 96-99: the loop left, the currency stored or reported
NbpCurrencyDone ==
    /\ nbp.pc = "chunks"
    /\ nbp.chunk_start > nbp.max_date
    /\ IF DOMAIN nbp.all_rates # {}
       THEN /\ rates_by_currency' =
                  [rates_by_currency EXCEPT
                      ![nbp.currency] = [present |-> TRUE, rates |-> nbp.all_rates]]
            /\ output' = output
       ELSE /\ rates_by_currency' = rates_by_currency
            /\ output' = Append(output, Message("log", "Failed to get any rates", 0))
    /\ nbp' = [nbp EXCEPT !.pc = "currencies", !.todo = Tail(@)]
    /\ UNCHANGED <<transactions, settlement_day, pc, idx, looked_up, days_back,
                   search_limit, search_dates, tax_transactions, err, pit38, rows>>
    /\ UNCHANGED appVars

\* line 101
NbpReturn ==
    /\ nbp.pc = "currencies"
    /\ nbp.todo = <<>>
    /\ nbp' = [nbp EXCEPT !.pc = "returned"]
    /\ UNCHANGED <<transactions, rates_by_currency, settlement_day, pc, idx,
                   looked_up, days_back, search_limit, search_dates,
                   tax_transactions, err, pit38, rows, output>>
    /\ UNCHANGED appVars

-----------------------------------------------------------------------------
(* addin_taxpl.py: load_trades_from_excel and process_pit38_tax *)

\* A row of the trades file.  The cells Quote Currency, Type, Total Cost and
\* Fee hold valid text; the Price cell is a number, is empty or holds other
\* text; the Date & Time cell is a valid date, is empty or holds other text;
\* fee_column tells whether the sheet has a Fee column at all.
Row(currency, day, type, cost, fee, price, date, fee_column) ==
    [quote_currency |-> currency, timestamp |-> day, trade_type |-> type,
     total_cost |-> cost, fee |-> fee, price |-> price, date |-> date,
     fee_column |-> fee_column]

\* Decimal(cell) of a column read with dtype str: a number parses, other text
\* raises decimal.InvalidOperation, and an empty cell, which pandas hands over
\* as NaN, gives Decimal('NaN') without raising
DecimalRaises(cell) == cell = "text"

\* lines 307-330: the exception raised by a row in the order of evaluation
\* (Price at line 308, Fee at line 311, Date & Time at line 320), or None
RowError(row) ==
    CASE DecimalRaises(row.price) -> "InvalidOperation"
      [] ~DecimalRaises(row.price) /\ ~row.fee_column -> "KeyError"
      [] ~DecimalRaises(row.price) /\ row.fee_column /\ row.date = "empty" -> "TypeError"
      [] ~DecimalRaises(row.price) /\ row.fee_column /\ row.date = "text" -> "ValueError"
      [] OTHER -> None

\* load_trades_from_excel: the exception of the first row that raises, which
\* is raised again at lines 330 and 339, or the list of all rows
load_trades_from_excel(file_rows) ==
    LET bad == {k \in DOMAIN file_rows : RowError(file_rows[k]) # None}
    IN  IF bad # {}
        THEN [err |-> RowError(file_rows[MinOf(bad)]), result |-> <<>>]
        ELSE [err |-> None,
              result |-> [k \in DOMAIN file_rows |->
                            Transaction(k, file_rows[k].quote_currency,
                                        file_rows[k].timestamp, file_rows[k].trade_type,
                                        file_rows[k].total_cost, file_rows[k].fee)]]

\* process_pit38_tax lines 420-441: the file loaded and the download called,
\* or the error printed and the function left
LoadTrades ==
    /\ pc = "load"
    /\ LET loaded == load_trades_from_excel(rows)
       IN  IF loaded.err = None
           THEN /\ transactions' = loaded.result
                /\ output' = Append(output, Message("console", "Successfully loaded trades",
                                                    Len(loaded.result)))
                /\ pc' = "fetch"
                /\ nbp' = [NbpIdle EXCEPT !.pc = "entry"]
           ELSE /\ transactions' = transactions
                /\ output' = output \o <<Message("log", "Error loading trades", 0),
                                         Message("console", "Error loading trades", 0)>>
                /\ pc' = "stopped"
                /\ nbp' = nbp
    /\ UNCHANGED <<rates_by_currency, settlement_day, idx, looked_up, days_back,
                   search_limit, search_dates, tax_transactions, err, pit38, rows>>
    /\ UNCHANGED appVars

\* process_pit38_tax lines 441-447: the download has returned
RatesDownloaded ==
    /\ pc = "fetch"
    /\ nbp.pc = "returned"
    /\ output' = Append(output, Message("console", "NBP rates downloaded successfully", 0))
    /\ pc' = "entry"
    /\ UNCHANGED <<transactions, rates_by_currency, settlement_day, idx, looked_up,
                   days_back, search_limit, search_dates, tax_transactions, err,
                   pit38, nbp, rows>>
    /\ UNCHANGED appVars

\* process_pit38_tax lines 457-496: the tax transactions and the form saved
\* and the seven fields of the form printed as a table
PresentForm ==
    /\ pc = "aggregated"
    /\ output' = Append(output, Message("console", "PIT-38 Calculations for Tax Year",
                                        pit38[Len(pit38)].data.year))
    /\ pc' = "presented"
    /\ UNCHANGED <<transactions, rates_by_currency, settlement_day, idx, looked_up,
                   days_back, search_limit, search_dates, tax_transactions, err,
                   pit38, nbp, rows>>
    /\ UNCHANGED appVars

-----------------------------------------------------------------------------
(* config.py and menu.py: Configuration and MenuManager *)

\* A configuration is the two account dictionaries, each mapping a key to the
\* name of the account; a label is the pair of the platform and the name.
Label(platform, name) == <<platform, name>>

AllAccounts == Label("All Accounts", "")

\* Configuration.hasAnyAccounts
hasAnyAccounts(config) ==
    DOMAIN config.kraken_accounts # {} \/ DOMAIN config.binance_accounts # {}

\* Configuration.copy: a new object holding copies of both dictionaries
copy(config) ==
    [kraken_accounts |-> config.kraken_accounts,
     binance_accounts |-> config.binance_accounts]

\* MenuManager.get_account_choices
get_account_choices(config) ==
    {Label("Kraken", config.kraken_accounts[k]) : k \in DOMAIN config.kraken_accounts}
    \cup
    {Label("Binance", config.binance_accounts[k]) : k \in DOMAIN config.binance_accounts}

\* The dictionary comprehension of filter_selected_accounts
Filtered(accounts, platform, chosen_accounts) ==
    [k \in {j \in DOMAIN accounts : Label(platform, accounts[j]) \in chosen_accounts}
        |-> accounts[k]]

\* The filter assigning the filtered dictionaries to the configuration it was given
filter_selected_accounts_in_place(config, chosen_accounts) ==
    LET filtered ==
            IF AllAccounts \notin chosen_accounts
            THEN [kraken_accounts |->
                      Filtered(config.kraken_accounts, "Kraken", chosen_accounts),
                  binance_accounts |->
                      Filtered(config.binance_accounts, "Binance", chosen_accounts)]
            ELSE config
    IN  [working_config |-> filtered, config |-> filtered]

\* MenuManager.filter_selected_accounts: the configuration returned and the
\* configuration passed in as it is after the call
filter_selected_accounts(config, chosen_accounts) ==
    LET working_config == copy(config)
    IN  [working_config |->
             IF AllAccounts \notin chosen_accounts
             THEN [kraken_accounts |->
                       Filtered(working_config.kraken_accounts, "Kraken",
                                chosen_accounts),
                   binance_accounts |->
                       Filtered(working_config.binance_accounts, "Binance",
                                chosen_accounts)]
             ELSE working_config,
         config |-> config]

\* MenuManager.select_accounts: selection is the answer to the first prompt and
\* boxes the accounts ticked in the second; none = the method returns None
select_accounts(config, selection, boxes) ==
    IF get_account_choices(config) = {}
    THEN [none |-> TRUE, chosen |-> {}]
    ELSE IF selection = "Back to Main Menu" \/ selection = None
    THEN [none |-> TRUE, chosen |-> {}]
    ELSE IF selection = "All Accounts"
    THEN [none |-> FALSE, chosen |-> {AllAccounts}]
    ELSE IF boxes = {}
    THEN [none |-> TRUE, chosen |-> {}]
    ELSE [none |-> FALSE, chosen |-> boxes]

\* The handler calling the download function before it looks at the accounts
handle_download_trades_unchecked(config, selection, boxes, outcome) ==
    LET chosen == select_accounts(config, selection, boxes)
        filtered == filter_selected_accounts(config, chosen.chosen)
    IN  [downloads |-> <<filtered.working_config>>,
         result |-> IF outcome = "returns" THEN "True" ELSE outcome,
         config |-> filtered.config]

\* MenuManager.handle_download_trades: the configurations passed to the download
\* function, what the call returned or raised, and config after the call
handle_download_trades(config, selection, boxes, outcome) ==
    LET chosen == select_accounts(config, selection, boxes)
        filtered == filter_selected_accounts(config, chosen.chosen)
    IN  IF chosen.none
        THEN [downloads |-> <<>>, result |-> None, config |-> config]
        ELSE IF ~hasAnyAccounts(filtered.working_config)
        THEN [downloads |-> <<>>, result |-> None, config |-> filtered.config]
        ELSE [downloads |-> <<filtered.working_config>>,
              result |-> IF outcome = "returns" THEN "True" ELSE outcome,
              config |-> filtered.config]

\* The answers to the prompts and the ways a called function ends
MenuChoices == {"Download Trades", "Calculate Tax (PL Only)", "Exit"}
DownloadChoices == {"Back to Main Menu", "All Accounts", "Select Specific Accounts"}
Outcomes == {"returns", "KeyboardInterrupt"}

\* interactive_menu: the prompt at the top of the loop
AskAction ==
    /\ menu.pc = "menu"
    /\ \E action \in MenuChoices \cup {None} :
        /\ Len(menu.selections) < MaxSelections \/ action = "Exit"
        /\ menu' = [menu EXCEPT
                !.selections = Append(@, action),
                !.pc = CASE action = "Download Trades" -> "download"
                         [] action = "Calculate Tax (PL Only)" -> "tax"
                         [] action = "Exit" -> "exit"
                         [] OTHER -> "menu"]
    /\ UNCHANGED <<taxVars, kraken, binance>>

\* interactive_menu: self.handle_download_trades(config)
HandleDownloadTrades ==
    /\ menu.pc = "download"
    /\ \E selection \in DownloadChoices \cup {None},
          boxes \in SUBSET get_account_choices(menu.config),
          outcome \in Outcomes :
        LET r == handle_download_trades(menu.config, selection, boxes, outcome)
        IN  menu' = [menu EXCEPT
                !.calls = Append(@, [fn |-> "handle_download_trades",
                                     config |-> menu.config,
                                     outcome |-> IF r.result = "KeyboardInterrupt"
                                                 THEN r.result ELSE "returns"]),
                !.handled = Append(@, [choices |-> get_account_choices(menu.config),
                                       selection |-> selection,
                                       boxes |-> boxes,
                                       downloads |-> r.downloads,
                                       result |-> r.result]),
                !.config = r.config,
                !.pc = IF r.result = "KeyboardInterrupt"
                       THEN "interrupted" ELSE "menu"]
    /\ UNCHANGED <<taxVars, kraken, binance>>

\* The interrupt of an action answered by a call of exit_fn
ProcessTaxExiting ==
    /\ menu.pc = "tax"
    /\ \E outcome \in Outcomes :
        menu' = [menu EXCEPT
            !.calls = Append(@, [fn |-> "process_tax_fn", config |-> menu.config,
                                 outcome |-> outcome]),
            !.exits = IF outcome = "KeyboardInterrupt" THEN Append(@, 0) ELSE @,
            !.pc = IF outcome = "KeyboardInterrupt" THEN "exited" ELSE "menu"]
    /\ UNCHANGED <<taxVars, kraken, binance>>

\* interactive_menu: self.process_tax_fn(config)
ProcessTax ==
    /\ menu.pc = "tax"
    /\ \E outcome \in Outcomes :
        menu' = [menu EXCEPT
            !.calls = Append(@, [fn |-> "process_tax_fn", config |-> menu.config,
                                 outcome |-> outcome]),
            !.pc = IF outcome = "KeyboardInterrupt" THEN "interrupted" ELSE "menu"]
    /\ UNCHANGED <<taxVars, kraken, binance>>

\* interactive_menu: self.exit_fn(0), which ends the program
Exit ==
    /\ menu.pc = "exit"
    /\ menu' = [menu EXCEPT !.exits = Append(@, 0), !.pc = "exited"]
    /\ UNCHANGED <<taxVars, kraken, binance>>

-----------------------------------------------------------------------------
(* kraken.py: KrakenAPI *)

\* The asset pairs of download_asset_pairs and the pairs a trade may name
KnownPairs == {"XXBTZEUR"}
TradedPairs == KnownPairs \cup {"XDGUSD"}

\* pair_to_quote: the quote currency of each known pair
pair_to_quote == [p \in KnownPairs |-> "EUR"]

\* A trade of a trades-history response
KrakenTrade(trade_id, pair) == [trade_id |-> trade_id, pair |-> pair]

\* KrakenAPI.transactions_from_kraken_data
transactions_from_kraken_data(data) ==
    [platform |-> "Kraken",
     trade_id |-> data.trade_id,
     trading_pair |-> data.pair,
     quote_currency |-> IF data.pair \in DOMAIN pair_to_quote
                        THEN pair_to_quote[data.pair] ELSE ""]

\* The for loop over the trades of a response
Converted(trades) ==
    [i \in 1..Len(trades) |-> transactions_from_kraken_data(trades[i])]

\* The responses that the server may give: count trades numbered from the
\* offset on, with or without an error reported
KrakenResponses(offset, count) ==
    {[error |-> e, trades |-> trades] :
        e \in BOOLEAN,
        trades \in {[i \in 1..count |-> KrakenTrade(offset + i, pair[i])] :
                        pair \in [1..count -> TradedPairs]}}

\* The loop advancing the offset by one for each response
KrakenPageCountingResponses ==
    /\ kraken.pc = "loop"
    /\ \E count \in 1..(MaxKrakenTrades - Len(kraken.transactions)) :
        \E response \in KrakenResponses(Len(kraken.transactions), count) :
            kraken' = [kraken EXCEPT
                !.offsets = Append(@, kraken.offset),
                !.responses = Append(@, response),
                !.transactions = @ \o Converted(response.trades),
                !.offset = @ + 1]
    /\ UNCHANGED <<taxVars, menu, binance>>

\* download_all_trades: a pass of the loop for a response that carries trades
KrakenPage ==
    /\ kraken.pc = "loop"
    /\ \E count \in 1..(MaxKrakenTrades - Len(kraken.transactions)) :
        \E response \in KrakenResponses(Len(kraken.transactions), count) :
            kraken' = [kraken EXCEPT
                !.offsets = Append(@, kraken.offset),
                !.responses = Append(@, response),
                !.transactions = @ \o Converted(response.trades),
                !.offset = @ + Len(response.trades)]
    /\ UNCHANGED <<taxVars, menu, binance>>

\* download_all_trades: the pass of the loop for a response without trades,
\* and the return
KrakenLast ==
    /\ kraken.pc = "loop"
    /\ \E response \in KrakenResponses(Len(kraken.transactions), 0) :
        kraken' = [kraken EXCEPT
            !.offsets = Append(@, kraken.offset),
            !.responses = Append(@, response),
            !.returned = kraken.transactions,
            !.pc = "returned"]
    /\ UNCHANGED <<taxVars, menu, binance>>

-----------------------------------------------------------------------------
(* binance.py: BinanceAPI *)

\* A response of get_my_trades carries the trades with consecutive ids from
\* first on; a list of trades or of transactions is kept as the sequence of
\* such runs.  code is the code of the BinanceAPIException raised, 0 for none.
NoId == -1              \* last_trade_id = None
NoError == 0
OtherError == -1100     \* a code that is neither of the two the code names

Page(symbol, first, count) == [symbol |-> symbol, first |-> first, count |-> count]

\* trades[-1]["id"]
LastId(page) == page.first + page.count - 1

\* BinanceAPI.transactions_from_trade, for each trade of a run
transactions_from_trade(page) ==
    [platform |-> "Binance", trading_pair |-> page.symbol,
     first |-> page.first, count |-> page.count]

\* The list comprehension of process_symbol
TransactionsFrom(trades) ==
    [i \in 1..Len(trades) |-> transactions_from_trade(trades[i])]

\* 'fromId': last_trade_id if last_trade_id else None
FromId(last_trade_id) == IF last_trade_id \in {NoId, 0} THEN NoId ELSE last_trade_id

\* The symbols of pair_mapping, in the order of its keys
SymbolNames == <<"BTCUSDT", "ETHUSDT", "BNBUSDT", "XRPUSDT", "ADAUSDT">>

\* A future submitted and not started
Queued ==
    [pc |-> "queued", retries |-> 0, last_trade_id |-> NoId, symbol_txns |-> <<>>,
     fromId |-> NoId, code |-> NoError, returned |-> <<>>, result |-> <<>>]

Symbols == DOMAIN binance.futures

\* f.running()
Running(s) == binance.futures[s].pc \in {"head", "request", "after", "post"}

\* f.done()
Done(s) == binance.futures[s].pc \in {"done", "cancelled"}

\* The position of a symbol among the keys of pair_mapping
PositionOf(s) == CHOOSE i \in 1..Len(binance.pair_mapping) : binance.pair_mapping[i] = s

\* The pages that the server may send for a request: no trade, one trade or
\* limit trades, from fromId on
PagesFor(s) ==
    LET first == IF binance.futures[s].fromId = NoId THEN 0
                 ELSE binance.futures[s].fromId
    IN  {Page(s, first, count) :
            count \in {0, 1} \cup (IF binance.full_left > 0 THEN {PageLimit} ELSE {})}

\* download_all_trades up to the submission of the futures
DownloadAllTrades ==
    /\ binance.pc = "start"
    /\ binance' = [binance EXCEPT
            !.transactions = <<>>,
            !.pc = IF Len(binance.pair_mapping) = 0 \/ binance.abort_processing
                   THEN "returned" ELSE "wait",
            !.returned = <<>>]
    /\ UNCHANGED <<taxVars, menu, kraken>>

\* A worker of the pool takes the next future: process_symbol up to the first
\* test of get_trades_for_symbol
ProcessSymbol(s) ==
    /\ binance.pc # "start"
    /\ binance.futures[s].pc = "queued"
    /\ \A t \in Symbols : PositionOf(t) < PositionOf(s) => binance.futures[t].pc # "queued"
    /\ Cardinality({t \in Symbols : Running(t)}) < max_workers
    /\ binance' = [binance EXCEPT
            !.futures[s].pc =
                IF binance.abort_processing \/ binance.shutdown_event
                THEN "done" ELSE "head"]
    /\ UNCHANGED <<taxVars, menu, kraken>>

\* get_trades_for_symbol: the tests of the two while statements
TradesLoop(s) ==
    /\ binance.futures[s].pc = "head"
    /\ LET f == binance.futures[s]
       IN  binance' = [binance EXCEPT
                !.futures[s] =
                    IF /\ f.retries < max_retries
                       /\ ~binance.abort_processing
                       /\ ~binance.shutdown_event
                    THEN [f EXCEPT !.pc = "request",
                                   !.fromId = FromId(f.last_trade_id)]
                    ELSE [f EXCEPT !.pc = "post", !.returned = f.symbol_txns]]
    /\ UNCHANGED <<taxVars, menu, kraken>>

\* The handler that returns on the timestamp error without setting the abort
\* flag and the shutdown event
FailedWithoutAbort(s, code) ==
    LET f == binance.futures[s]
    IN  binance' = [binance EXCEPT
            !.errors_left = @ - 1,
            !.timestamp_error = @ \/ code = TimestampError,
            !.futures[s] =
                IF code = TimestampError
                THEN [f EXCEPT !.code = code, !.pc = "post", !.returned = <<>>]
                ELSE IF code = RateLimitError
                THEN [f EXCEPT !.code = code, !.retries = @ + 1, !.pc = "head"]
                ELSE [f EXCEPT !.code = code, !.retries = @ + 1, !.pc = "post",
                               !.returned = f.symbol_txns]]

\* The handler that tries again after every error but the timestamp error
FailedRetryingAlways(s, code) ==
    LET f == binance.futures[s]
    IN  binance' = [binance EXCEPT
            !.errors_left = @ - 1,
            !.timestamp_error = @ \/ code = TimestampError,
            !.abort_processing = @ \/ code = TimestampError,
            !.shutdown_event = @ \/ code = TimestampError,
            !.futures[s] =
                IF code = TimestampError
                THEN [f EXCEPT !.code = code, !.pc = "post", !.returned = <<>>]
                ELSE [f EXCEPT !.code = code, !.retries = @ + 1, !.pc = "head"]]

\* get_trades_for_symbol: the handler of BinanceAPIException
Failed(s, code) ==
    LET f == binance.futures[s]
    IN  binance' = [binance EXCEPT
            !.errors_left = @ - 1,
            !.timestamp_error = @ \/ code = TimestampError,
            !.abort_processing = @ \/ code = TimestampError,
            !.shutdown_event = @ \/ code = TimestampError,
            !.futures[s] =
                IF code = TimestampError
                THEN [f EXCEPT !.code = code, !.pc = "post", !.returned = <<>>]
                ELSE IF code = RateLimitError
                THEN [f EXCEPT !.code = code, !.retries = @ + 1, !.pc = "head"]
                ELSE [f EXCEPT !.code = code, !.retries = @ + 1, !.pc = "post",
                               !.returned = f.symbol_txns]]

\* get_trades_for_symbol: the trades of a response are added to symbol_txns
Received(s, trades) ==
    LET f == binance.futures[s]
    IN  binance' = [binance EXCEPT
            !.full_left = IF trades.count = PageLimit THEN @ - 1 ELSE @,
            !.futures[s] =
                IF trades.count = 0
                THEN [f EXCEPT !.code = NoError, !.pc = "post",
                               !.returned = f.symbol_txns]
                ELSE [f EXCEPT !.code = NoError, !.pc = "after",
                               !.symbol_txns = Append(@, trades),
                               !.last_trade_id = LastId(trades)]]

\* get_trades_for_symbol: the answer to a request of get_my_trades
GetMyTrades(s) ==
    /\ binance.futures[s].pc = "request"
    /\ \/ \E trades \in PagesFor(s) : Received(s, trades)
       \/ /\ binance.errors_left > 0
          /\ \E code \in {TimestampError, RateLimitError, OtherError} : Failed(s, code)
    /\ UNCHANGED <<taxVars, menu, kraken>>

\* get_trades_for_symbol: after the pause that follows a response with trades
AfterTrades(s) ==
    /\ binance.futures[s].pc = "after"
    /\ LET f == binance.futures[s]
           trades == f.symbol_txns[Len(f.symbol_txns)]
       IN  binance' = [binance EXCEPT
                !.futures[s] =
                    IF binance.shutdown_event \/ trades.count < PageLimit
                    THEN [f EXCEPT !.pc = "post", !.returned = f.symbol_txns]
                    ELSE [f EXCEPT !.pc = "request",
                                   !.fromId = FromId(f.last_trade_id)]]
    /\ UNCHANGED <<taxVars, menu, kraken>>

\* The worker adding what it has converted to self.transactions itself
ProcessSymbolReturnAppending(s) ==
    /\ binance.futures[s].pc = "post"
    /\ LET f == binance.futures[s]
           result == IF binance.abort_processing \/ binance.shutdown_event
                     THEN <<>> ELSE TransactionsFrom(f.returned)
       IN  binance' = [binance EXCEPT
                !.transactions = @ \o result,
                !.futures[s] = [f EXCEPT !.pc = "done", !.result = result]]
    /\ UNCHANGED <<taxVars, menu, kraken>>

\* process_symbol after get_trades_for_symbol has returned
ProcessSymbolReturn(s) ==
    /\ binance.futures[s].pc = "post"
    /\ LET f == binance.futures[s]
       IN  binance' = [binance EXCEPT
                !.futures[s] =
                    [f EXCEPT !.pc = "done",
                              !.result =
                                  IF binance.abort_processing \/ binance.shutdown_event
                                  THEN <<>> ELSE TransactionsFrom(f.returned)]]
    /\ UNCHANGED <<taxVars, menu, kraken>>

\* download_all_trades: as_completed hands a finished future to the loop
AsCompleted ==
    /\ binance.pc = "wait"
    /\ \E s \in Symbols \ binance.yielded :
        /\ Done(s)
        /\ binance' =
            IF binance.abort_processing
            THEN [binance EXCEPT
                    !.shutdown_event = TRUE,
                    !.futures = [t \in Symbols |->
                                    IF binance.futures[t].pc = "queued"
                                    THEN [binance.futures[t] EXCEPT !.pc = "cancelled"]
                                    ELSE binance.futures[t]],
                    !.yielded = @ \cup {s},
                    !.pc = "abort"]
            ELSE [binance EXCEPT
                    !.transactions = @ \o binance.futures[s].result,
                    !.yielded = @ \cup {s},
                    !.pc = "check"]
    /\ UNCHANGED <<taxVars, menu, kraken>>

\* download_all_trades: the test at the end of a pass of the loop
CheckAbort ==
    /\ binance.pc = "check"
    /\ binance' = [binance EXCEPT
            !.pc = IF binance.abort_processing \/ binance.yielded = Symbols
                   THEN "after" ELSE "wait"]
    /\ UNCHANGED <<taxVars, menu, kraken>>

\* download_all_trades: the return of the abort branch, once the pool has
\* shut down
AbortReturn ==
    /\ binance.pc = "abort"
    /\ \A s \in Symbols : Done(s)
    /\ binance' = [binance EXCEPT !.returned = <<>>, !.pc = "returned"]
    /\ UNCHANGED <<taxVars, menu, kraken>>

\* download_all_trades: the end of the call after the loop, once the pool has
\* shut down
ReturnTransactions ==
    /\ binance.pc = "after"
    /\ \A s \in Symbols : Done(s)
    /\ binance' = [binance EXCEPT
            !.returned = IF binance.abort_processing THEN <<>> ELSE binance.transactions,
            !.pc = "returned"]
    /\ UNCHANGED <<taxVars, menu, kraken>>

-----------------------------------------------------------------------------
(* Inputs *)

Currencies == {"EUR", "USD", "PLN"}

\* The currency is no key of the dict / is a key with a table over one of daysets
TableOptions(currency, daysets) ==
    {[present |-> FALSE, rates |-> RateTable(currency, {})]}
        \cup {[present |-> TRUE, rates |-> RateTable(currency, D)] : D \in daysets}

RateMaps ==
    {[c \in Currencies |-> CASE c = "EUR" -> e [] c = "USD" -> u [] OTHER -> p] :
        e \in TableOptions("EUR", SUBSET RateDays),
        u \in TableOptions("USD", {{}, RateDays}),
        p \in TableOptions("PLN", {RateDays})}

FullRates ==
    [c \in Currencies |->
        [present |-> c # "PLN",
         rates |-> RateTable(c, IF c = "PLN" THEN {} ELSE YearEndDays)]]

\* transactions is a list of at most n trades drawn from choices, numbered
\* by position
TradeListOf(n, choices) ==
    \E len \in 0..n : \E ch \in [1..len -> choices] :
        transactions = [k \in 1..len |->
                           Transaction(k, ch[k].quote_currency, ch[k].timestamp,
                                       ch[k].trade_type, ch[k].total_cost, ch[k].fee)]

Choice(currency, day, type, cost, fee) ==
    [quote_currency |-> currency, timestamp |-> day, trade_type |-> type,
     total_cost |-> cost, fee |-> fee]

\* Matching runs: EUR purchases on every trade day, a USD sale and a PLN
\* purchase on the first trade day
MatchChoices ==
    {Choice("EUR", d, BUY, 1000000, 10000) : d \in TradeDays}
        \cup {Choice("USD", DateMin + 2, SELL, 1000000, 10000),
              Choice("PLN", DateMin + 2, BUY, 1000000, 10000)}

Buy == <<"b", "u", "y">>
Sell == <<"S", "e", "l", "l">>
DEPOSIT == <<"D", "E", "P", "O", "S", "I", "T">>

\* Aggregation runs: EUR trades of 1000 with fee 10 of every type on the
\* last day but one of year 1 and the first day of year 2, USD trades of
\* 0.004 without fee on the first day of year 2
TaxChoices ==
    {Choice("EUR", d, t, 1000000, 10000) :
        d \in {DaysPerYear - 1, DaysPerYear + 1},
        t \in {BUY, SELL, Buy, Sell, DEPOSIT}}
        \cup {Choice("USD", DaysPerYear + 1, t, 4, 0) : t \in {BUY, SELL}}

Start ==
    /\ pc = "entry"
    /\ idx = 0
    /\ looked_up = {}
    /\ days_back = 0
    /\ search_limit = 0
    /\ search_dates = <<>>
    /\ tax_transactions = <<>>
    /\ err = None
    /\ pit38 = <<>>
    /\ nbp = NbpIdle
    /\ rows = <<>>
    /\ output = <<>>
    /\ AppIdle

Init ==
    /\ settlement_day \in (-MaxOffset)..1
    /\ rates_by_currency \in RateMaps
    /\ TradeListOf(MaxTrades, MatchChoices)
    /\ Start

Next ==
    \/ RaiseValueError
    \/ Enter
    \/ SkipPLN
    \/ SkipNoRates
    \/ BeginScan
    \/ ScanOverflow
    \/ ScanMiss
    \/ ScanHit
    \/ ScanBreak
    \/ Return
    \/ CalculatePit38

Spec == Init /\ [][Next]_vars

InitTax ==
    /\ settlement_day \in {-2, -1}
    /\ rates_by_currency = FullRates
    /\ TradeListOf(MaxTaxTrades, TaxChoices)
    /\ Start

NextTax ==
    \/ Enter
    \/ BeginScan
    \/ ScanHit
    \/ ScanBreak
    \/ Return
    \/ CalculatePit38

SpecTax == InitTax /\ [][NextTax]_vars

\* One EUR trade two months after date.min, the table holding at most
\* date.min, the day after it and the trade's own day
InitFar ==
    /\ settlement_day \in (-MaxOffset)..0
    /\ \E day \in FarTradeDays :
          /\ \E D \in SUBSET {DateMin, DateMin + 1, day} :
                rates_by_currency =
                    [c \in Currencies |->
                        [present |-> c = "EUR",
                         rates |-> RateTable(c, IF c = "EUR" THEN D ELSE {})]]
          /\ transactions = <<Transaction(1, "EUR", day, BUY, 1000000, 10000)>>
    /\ Start

NextFar ==
    \/ Enter
    \/ SkipNoRates
    \/ BeginScan
    \/ ScanOverflow
    \/ ScanMiss
    \/ ScanHit
    \/ ScanBreak
    \/ Return

SpecFar == InitFar /\ [][NextFar]_vars

\* Reordered lists: sales and purchases of both currencies in year 2, one of
\* them spelled in lower case, and a sale of year 1
OrderChoices ==
    {ch \in TaxChoices :
        \/ ch.timestamp = DaysPerYear + 1 /\ ch.trade_type \in {BUY, SELL, Sell}
        \/ ch.timestamp = DaysPerYear - 1 /\ ch.trade_type = SELL}

InitOrder ==
    /\ settlement_day \in {-2, -1}
    /\ rates_by_currency = FullRates
    /\ TradeListOf(MaxTaxTrades, OrderChoices)
    /\ Start

SpecOrder == InitOrder /\ [][NextTax]_vars

\* Aggregation alone: a USD sale and a USD purchase on 1 January of year 2,
\* matched with the rate 1.0 of that day, amounts in 10^-3
PitDay == DaysPerYear + 1
PitAmounts == {0, 26, 125, 135, 1500, 21520, 100000, 150000}

InitPit ==
    /\ settlement_day = 0
    /\ rates_by_currency = FullRates
    /\ \E sold \in PitAmounts, bought \in PitAmounts :
          /\ transactions = <<Transaction(1, "USD", PitDay, SELL, sold, 0),
                              Transaction(2, "USD", PitDay, BUY, bought, 0)>>
          /\ tax_transactions =
                [k \in 1..2 |-> TransactionForTax(transactions[k],
                                                  ExchangeRate("USD", PitDay))]
    /\ pc = "returned"
    /\ idx = 2
    /\ looked_up = {}
    /\ days_back = 0
    /\ search_limit = 0
    /\ search_dates = <<>>
    /\ err = None
    /\ pit38 = <<>>
    /\ nbp = NbpIdle
    /\ rows = <<>>
    /\ output = <<>>
    /\ AppIdle

NextPit ==
    \/ CalculatePit38

SpecPit == InitPit /\ [][NextPit]_vars

\* Rate downloads: trades a week and a half after date.min, 359 and 360 days
\* later (a range of exactly WindowDays days, and of one day more) and two
\* years later
NbpTradeDays ==
    {DateMin + MarginDays + 2, DateMin + WindowDays + 1, DateMin + WindowDays + 2,
     DateMin + (2 * WindowDays) + 25}

NbpChoices ==
    {Choice(c, d, BUY, 1000000, 10000) : c \in Currencies, d \in NbpTradeDays}

NoRateMap == [c \in Currencies |-> [present |-> FALSE, rates |-> RateTable(c, {})]]

InitNbp ==
    /\ settlement_day = -1
    /\ rates_by_currency = NoRateMap
    /\ TradeListOf(MaxNbpTrades, NbpChoices)
    /\ pc = "fetch"
    /\ idx = 0
    /\ looked_up = {}
    /\ days_back = 0
    /\ search_limit = 0
    /\ search_dates = <<>>
    /\ tax_transactions = <<>>
    /\ err = None
    /\ pit38 = <<>>
    /\ nbp = [NbpIdle EXCEPT !.pc = "entry"]
    /\ rows = <<>>
    /\ output = <<>>
    /\ AppIdle

NextNbp ==
    \/ NbpGroup
    \/ NbpNextCurrency
    \/ NbpChunk
    \/ NbpCurrencyDone
    \/ NbpReturn

SpecNbp == InitNbp /\ [][NextNbp]_vars

\* The call runs on: no step of it waits for anything but the response
SpecNbpLive == SpecNbp /\ WF_vars(NextNbp)

\* Whole runs: rows of EUR, USD and PLN trades in the second week of year 2,
\* and the EUR row with an empty or unreadable Price or Date & Time cell
RunDay == DateMin + WindowDays + 1

RowChoices ==
    {Row("EUR", RunDay, BUY, 1000000, 10000, price, "valid", TRUE) :
        price \in {"number", "empty", "text"}}
        \cup {Row("EUR", RunDay, BUY, 1000000, 10000, "number", date, TRUE) :
                 date \in {"empty", "text"}}
        \cup {Row("USD", RunDay + 1, SELL, 1000000, 10000, "number", "valid", TRUE),
              Row("PLN", RunDay, BUY, 1000000, 10000, "number", "valid", TRUE)}

InitRun ==
    /\ settlement_day \in {-2, -1}
    /\ rates_by_currency = NoRateMap
    /\ \E len \in 0..MaxRows : \E ch \in [1..len -> RowChoices] :
          \E fee_column \in BOOLEAN :
              rows = [k \in 1..len |-> [ch[k] EXCEPT !.fee_column = fee_column]]
    /\ transactions = <<>>
    /\ pc = "load"
    /\ idx = 0
    /\ looked_up = {}
    /\ days_back = 0
    /\ search_limit = 0
    /\ search_dates = <<>>
    /\ tax_transactions = <<>>
    /\ err = None
    /\ pit38 = <<>>
    /\ nbp = NbpIdle
    /\ output = <<>>
    /\ AppIdle

NextRun ==
    \/ LoadTrades
    \/ NbpGroup
    \/ NbpNextCurrency
    \/ NbpChunk
    \/ NbpCurrencyDone
    \/ NbpReturn
    \/ RatesDownloaded
    \/ Enter
    \/ SkipPLN
    \/ SkipNoRates
    \/ BeginScan
    \/ ScanMiss
    \/ ScanHit
    \/ ScanBreak
    \/ Return
    \/ CalculatePit38
    \/ PresentForm

SpecRun == InitRun /\ [][NextRun]_vars

\* The menu: up to two Kraken accounts and one Binance account, with names
\* that may coincide
KrakenKeys == {"k1", "k2"}
BinanceKeys == {"b1"}
AccountNames == {"main", "alt"}

Configurations ==
    {[kraken_accounts |-> k, binance_accounts |-> b] :
        k \in UNION {[K -> AccountNames] : K \in SUBSET KrakenKeys},
        b \in UNION {[B -> AccountNames] : B \in SUBSET BinanceKeys}}

InitMenu ==
    /\ pc = "entry"
    /\ idx = 0
    /\ looked_up = {}
    /\ days_back = 0
    /\ search_limit = 0
    /\ search_dates = <<>>
    /\ tax_transactions = <<>>
    /\ err = None
    /\ pit38 = <<>>
    /\ nbp = NbpIdle
    /\ rows = <<>>
    /\ output = <<>>
    /\ transactions = <<>>
    /\ rates_by_currency = NoRateMap
    /\ settlement_day = -1
    /\ kraken = KrakenIdle
    /\ binance = BinanceIdle
    /\ \E config \in Configurations :
        menu = [MenuIdle EXCEPT !.pc = "menu", !.config = config,
                                !.original = config]

NextMenu ==
    \/ AskAction
    \/ HandleDownloadTrades
    \/ ProcessTax
    \/ Exit

SpecMenu == InitMenu /\ [][NextMenu]_vars

InitKraken ==
    /\ pc = "entry"
    /\ idx = 0
    /\ looked_up = {}
    /\ days_back = 0
    /\ search_limit = 0
    /\ search_dates = <<>>
    /\ tax_transactions = <<>>
    /\ err = None
    /\ pit38 = <<>>
    /\ nbp = NbpIdle
    /\ rows = <<>>
    /\ output = <<>>
    /\ transactions = <<>>
    /\ rates_by_currency = NoRateMap
    /\ settlement_day = -1
    /\ menu = MenuIdle
    /\ binance = BinanceIdle
    /\ kraken = [KrakenIdle EXCEPT !.pc = "loop"]

NextKraken ==
    \/ KrakenPage
    \/ KrakenLast

SpecKraken == InitKraken /\ [][NextKraken]_vars

\* A call of download_all_trades for the first n symbols, with the abort flag
\* as an earlier call or the constructor has left it
BinanceStart(n, errors, full_pages) ==
    /\ pc = "entry"
    /\ idx = 0
    /\ looked_up = {}
    /\ days_back = 0
    /\ search_limit = 0
    /\ search_dates = <<>>
    /\ tax_transactions = <<>>
    /\ err = None
    /\ pit38 = <<>>
    /\ nbp = NbpIdle
    /\ rows = <<>>
    /\ output = <<>>
    /\ transactions = <<>>
    /\ rates_by_currency = NoRateMap
    /\ settlement_day = -1
    /\ menu = MenuIdle
    /\ kraken = KrakenIdle
    /\ \E abort \in BOOLEAN :
        binance = [pc |-> "start",
                   abort_processing |-> abort,
                   shutdown_event |-> FALSE,
                   pair_mapping |-> SubSeq(SymbolNames, 1, n),
                   transactions |-> <<>>,
                   futures |-> [s \in {SymbolNames[i] : i \in 1..n} |-> Queued],
                   yielded |-> {},
                   returned |-> <<>>,
                   abort_at_start |-> abort,
                   timestamp_error |-> FALSE,
                   errors_left |-> errors,
                   full_left |-> full_pages]

NextBinance ==
    \/ DownloadAllTrades
    \/ \E s \in Symbols : ProcessSymbol(s)
    \/ \E s \in Symbols : TradesLoop(s)
    \/ \E s \in Symbols : GetMyTrades(s)
    \/ \E s \in Symbols : AfterTrades(s)
    \/ \E s \in Symbols : ProcessSymbolReturn(s)
    \/ AsCompleted
    \/ CheckAbort
    \/ AbortReturn
    \/ ReturnTransactions

\* The download of several symbols by the pool
InitBinance ==
    \E n \in 0..MaxSymbols, errors \in 0..MaxPoolErrors :
        BinanceStart(n, errors, MaxFullPages)

SpecBinance == InitBinance /\ [][NextBinance]_vars

\* The download of one symbol
InitSymbol == BinanceStart(1, MaxSymbolErrors, MaxFullPages)

SpecSymbol == InitSymbol /\ [][NextBinance]_vars

-----------------------------------------------------------------------------
(* Properties *)

Max(S) == CHOOSE x \in S : \A y \in S : y <= x

\* The rate table of a trade's quote currency
TableOf(t) == rates_by_currency[t.quote_currency].rates

\* The trade's quote currency is no key of rates_by_currency or has an empty table
HasNoTable(t) ==
    \/ rates_by_currency[t.quote_currency].present = FALSE
    \/ \A d \in RateDays \cup YearEndDays \cup FarTradeDays : d \notin DOMAIN TableOf(t)

\* The spellings of the two recognized trade types
BuySpellings == {BUY, Buy}
SellSpellings == {SELL, Sell}

\* C1: with settlement_day = -1 every matched rate is the entry of the most
\* recent table date strictly before the trade's date.
C1_RateStrictlyBeforeTradeDate ==
    settlement_day = -1 =>
        \A k \in DOMAIN tax_transactions :
            LET t == tax_transactions[k].transaction
                earlier == {d \in DOMAIN TableOf(t) : d < t.timestamp}
            IN  /\ earlier # {}
                /\ tax_transactions[k].tax_exchange_rate.rate_date = Max(earlier)

\* C2: with settlement_day <= 0 the match of a trade ends in a matched entry
\* or a no-match outcome, never in an exception.
C2_ScanNeverRaises ==
    settlement_day <= 0 => (pc # "raised" /\ err = None)

\* C3: whenever a rate is matched, the date at which the scan stopped is a
\* key of the table of the trade's quote currency and the wrapped
\* ExchangeRate is the table's entry for that date; the scan does not stop on
\* a date without entry.
C3_ScanStopsOnTableEntry ==
    /\ err # "KeyError"
    /\ Len(search_dates) = Len(tax_transactions)
    /\ \A k \in DOMAIN tax_transactions :
          LET t == tax_transactions[k].transaction IN
          /\ search_dates[k] \in DOMAIN TableOf(t)
          /\ tax_transactions[k].tax_exchange_rate = TableOf(t)[search_dates[k]]
          /\ tax_transactions[k].tax_exchange_rate.rate_date = search_dates[k]

\* a rate was matched by a scan that had raised the required count
C3_Witness ==
    /\ pc = "loop"
    /\ Len(tax_transactions) > 0
    /\ search_limit > Abs(settlement_day)

\* C4: the backward scan has a maximum lookback of at most 60 days: the date
\* of a matched rate is never more than 60 days before the trade's date.
C4_LookbackAtMost60 ==
    \A k \in DOMAIN tax_transactions :
        tax_transactions[k].transaction.timestamp
            - tax_transactions[k].tax_exchange_rate.rate_date <= 60

\* C5: with settlement_day > 0 the call ends in ValueError before any trade
\* is examined: no rate lookup, no tax transaction, no result.
C5_PositiveSettlementFailsFast ==
    settlement_day > 0 =>
        /\ pc \in {"entry", "raised"}
        /\ pc = "raised" => err = "ValueError"
        /\ idx = 0
        /\ looked_up = {}
        /\ tax_transactions = <<>>
        /\ pit38 = <<>>

\* ValueError was raised for a non-empty trade list and a non-empty table
C5_Witness ==
    /\ settlement_day > 0
    /\ pc = "raised"
    /\ err = "ValueError"
    /\ Len(transactions) > 0
    /\ \E t \in {transactions[1]} : t.quote_currency = "EUR" /\ ~HasNoTable(t)

\* C6: a PLN-quoted trade never reaches the rate lookup, raises no error and
\* is wrapped by no tax transaction, whatever rates_by_currency holds.
C6_ReportingCurrencySkipped ==
    /\ \A k \in DOMAIN transactions :
          transactions[k].quote_currency = "PLN" =>
              /\ transactions[k].trade_id \notin looked_up
              /\ \A j \in DOMAIN tax_transactions :
                    tax_transactions[j].transaction # transactions[k]
    /\ (pc = "raised" /\ err # "ValueError") => Current.quote_currency # "PLN"
    /\ pc = "scan" => Current.quote_currency # "PLN"

\* the call returned a tax transaction for a list with a PLN trade, although
\* rates_by_currency has a PLN table
C6_Witness ==
    /\ pc = "returned"
    /\ rates_by_currency["PLN"].present
    /\ Len(tax_transactions) > 0
    /\ \E k \in DOMAIN transactions : transactions[k].quote_currency = "PLN"

\* The date of the n-th key of table met when walking back from day, day included
NthKeyBack(table, day, n) ==
    CHOOSE d \in DOMAIN table :
        /\ d <= day
        /\ Cardinality({e \in DOMAIN table : d <= e /\ e <= day}) = n

\* C7: a trade whose quote currency has no rate table (no key, or an empty
\* table) yields no tax transaction and raises no error, and the returned
\* list holds, for every other non-PLN trade and in order, the trade with
\* the entry that its own date, table and the offset determine.
C7_NoRateTableSkipsOnlyThatTrade ==
    /\ \A j \in DOMAIN tax_transactions : ~HasNoTable(tax_transactions[j].transaction)
    /\ pc = "scan" => ~HasNoTable(Current)
    /\ (pc = "raised" /\ err # "ValueError") => ~HasNoTable(Current)
    /\ pc = "returned" =>
          LET others == SelectSeq(transactions,
                           LAMBDA t : t.quote_currency # "PLN" /\ ~HasNoTable(t))
              n == IF settlement_day = 0 THEN 1 ELSE Abs(settlement_day)
          IN  /\ Len(tax_transactions) = Len(others)
              /\ \A j \in DOMAIN others :
                    /\ tax_transactions[j].transaction = others[j]
                    /\ tax_transactions[j].tax_exchange_rate =
                          TableOf(others[j])[NthKeyBack(TableOf(others[j]),
                                                        others[j].timestamp, n)]

\* the call returned a tax transaction for a later trade of a list whose
\* first trade has a quote currency without rate table
C7_Witness ==
    /\ pc = "returned"
    /\ Len(transactions) >= 2
    /\ transactions[1].quote_currency # "PLN"
    /\ HasNoTable(transactions[1])
    /\ Len(tax_transactions) > 0

\* C8: the converted cost is (total_cost + fee) x rate for a BUY and
\* (total_cost - fee) x rate for a SELL, in any letter case and unrounded:
\* 1000, fee 10, rate 4.30 give 4343.00 and 4257.00.
C8_ConvertedCost ==
    \A k \in DOMAIN tax_transactions :
        LET tt == tax_transactions[k]
            t == tt.transaction
            rate == tt.tax_exchange_rate.rate
            example == t.total_cost = 1000000 /\ t.fee = 10000 /\ rate = 43
        IN  /\ t.trade_type \in BuySpellings =>
                  /\ tt.total_cost_tax_currency = (t.total_cost + t.fee) * rate
                  /\ example => tt.total_cost_tax_currency = 43430000
            /\ t.trade_type \in SellSpellings =>
                  /\ tt.total_cost_tax_currency = (t.total_cost - t.fee) * rate
                  /\ example => tt.total_cost_tax_currency = 42570000

\* the example as a lower-case buy and as a mixed-case Sell, and an amount
\* that is no whole number of cents
C8_Witness ==
    /\ \E k \in DOMAIN tax_transactions :
          /\ tax_transactions[k].transaction.trade_type = Buy
          /\ tax_transactions[k].total_cost_tax_currency = 43430000
    /\ \E k \in DOMAIN tax_transactions :
          /\ tax_transactions[k].transaction.trade_type = Sell
          /\ tax_transactions[k].total_cost_tax_currency = 42570000
    /\ \E k \in DOMAIN tax_transactions :
          tax_transactions[k].total_cost_tax_currency % 100 # 0

\* C9: a trade whose type is neither BUY nor SELL in any letter case never
\* becomes a tax transaction.
C9_UnknownTypeNeverConverted ==
    \A k \in DOMAIN tax_transactions :
        tax_transactions[k].transaction.trade_type \in BuySpellings \cup SellSpellings

\* Sum of the converted costs of the tax transactions at the positions S
RECURSIVE SumAt(_)
SumAt(S) ==
    IF S = {} THEN 0
    ELSE LET k == CHOOSE j \in S : TRUE
         IN  tax_transactions[k].total_cost_tax_currency + SumAt(S \ {k})

\* The positions of the tax transactions of a year with a type among spellings
PositionsOf(year, spellings) ==
    {k \in DOMAIN tax_transactions :
        /\ YearOf(tax_transactions[k].transaction.timestamp) = year
        /\ tax_transactions[k].transaction.trade_type \in spellings}

\* cents is a value in cents nearest to x (in 10^-4)
NearestCents(x, cents) == 2 * Abs(x - (100 * cents)) <= 100

\* C10: field 34 is the sum over the SELL transactions of the year, field 35
\* the sum over its BUY transactions, field 36 the carry-forward, each
\* rounded to cents once, after the exact sum: three SELLs of 0.004 give 0.01.
C10_Pit38Sums ==
    \A c \in DOMAIN pit38 :
        LET sells == PositionsOf(pit38[c].for_year, SellSpellings)
            buys == PositionsOf(pit38[c].for_year, BuySpellings)
            data == pit38[c].data
        IN  /\ data.year = pit38[c].for_year
            /\ NearestCents(SumAt(sells), data.field34_income)
            /\ NearestCents(SumAt(buys), data.field35_costs_current_year)
            /\ NearestCents(pit38[c].carry, data.field36_costs_previous_years)
            /\ (/\ Cardinality(sells) = 3
                /\ \A k \in sells : tax_transactions[k].total_cost_tax_currency = 40)
                  => data.field34_income = 1

\* the form of year 2 for three SELLs of 0.004 in year 2 and trades of year 1
C10_Witness ==
    /\ Len(pit38) = 1
    /\ pit38[1].for_year = 2
    /\ Cardinality(PositionsOf(2, SellSpellings)) = 3
    /\ \A k \in PositionsOf(2, SellSpellings) :
          tax_transactions[k].total_cost_tax_currency = 40
    /\ pit38[1].data.field34_income = 1

\* The sequence seq without its k-th element
RemoveAt(seq, k) == SubSeq(seq, 1, k - 1) \o SubSeq(seq, k + 1, Len(seq))

\* The matched transactions that can be added to a list: every trade of the
\* input family with the rate of its own day
ExtraTaxTransactions ==
    {TransactionForTax(
        Transaction(0, ch.quote_currency, ch.timestamp, ch.trade_type,
                    ch.total_cost, ch.fee),
        ExchangeRate(ch.quote_currency, ch.timestamp)) : ch \in TaxChoices}

\* C11: the form of a year depends only on the transactions whose trade
\* timestamp lies in that year: removing a transaction of another year from
\* the list, or adding one to it, leaves every field unchanged, also when an
\* in-year trade was matched with a rate dated in the previous year.
C11_OtherYearsIgnored ==
    \A c \in DOMAIN pit38 :
        LET y == pit38[c].for_year
            carry == pit38[c].carry
        IN  /\ \A k \in DOMAIN tax_transactions :
                  YearOf(tax_transactions[k].transaction.timestamp) # y
                      => calculate_pit_38(RemoveAt(tax_transactions, k), y, carry)
                             = pit38[c].data
            /\ \A extra \in ExtraTaxTransactions :
                  YearOf(extra.transaction.timestamp) # y
                      => /\ calculate_pit_38(Append(tax_transactions, extra), y, carry)
                               = pit38[c].data
                         /\ calculate_pit_38(<<extra>> \o tax_transactions, y, carry)
                               = pit38[c].data

\* the form of year 2 over a purchase of year 2 whose matched rate is dated
\* in year 1, counted in field 35, and a sale of year 1, left out of field 34
C11_Witness ==
    /\ Len(pit38) = 1
    /\ pit38[1].for_year = 2
    /\ pit38[1].data.field35_costs_current_year > 0
    /\ pit38[1].data.field34_income = 0
    /\ \E k \in DOMAIN tax_transactions :
          /\ YearOf(tax_transactions[k].transaction.timestamp) = 2
          /\ YearOf(tax_transactions[k].tax_exchange_rate.rate_date) = 1
          /\ tax_transactions[k].transaction.trade_type = BUY
    /\ \E k \in DOMAIN tax_transactions :
          /\ YearOf(tax_transactions[k].transaction.timestamp) = 1
          /\ tax_transactions[k].transaction.trade_type = SELL

\* cents is x (in 10^-4) rounded to cents, a tie going to the even cent
HalfEvenCents(x, cents) ==
    /\ NearestCents(x, cents)
    /\ 2 * Abs(x - (100 * cents)) = 100 => cents % 2 = 0

\* field 34 less the sum of fields 35 and 36, in cents
NetOf(data) ==
    data.field34_income
        - (data.field35_costs_current_year + data.field36_costs_previous_years)

\* C12: with net = field 34 - (field 35 + field 36) of the rounded fields, a
\* positive net gives tax base = net, loss = 0.00 and tax = net x 0.19 rounded
\* to cents; a net of zero or less gives tax base = 0.00, loss = |net| and
\* tax = 0.00.  (21.52, 0.00, 0.00) gives (21.52, 0.00, 4.09), (100.00, 150.00,
\* 0.00) gives (0.00, 50.00, 0.00), and a net of exactly 0 gives 0.00 thrice.
C12_DerivedFields ==
    \A c \in DOMAIN pit38 :
        LET data == pit38[c].data
            net == NetOf(data)
            derived == <<data.field37_tax_base, data.field38_loss, data.field39_tax>>
            inputs == <<data.field34_income, data.field35_costs_current_year,
                        data.field36_costs_previous_years>>
        IN  /\ net > 0 => /\ data.field37_tax_base = net
                          /\ data.field38_loss = 0
                          /\ NearestCents(net * 19, data.field39_tax)
            /\ net <= 0 => /\ data.field37_tax_base = 0
                           /\ data.field38_loss = Abs(net)
                           /\ data.field39_tax = 0
            /\ net = 0 => derived = <<0, 0, 0>>
            /\ inputs = <<2152, 0, 0>> => derived = <<2152, 0, 409>>
            /\ inputs = <<10000, 15000, 0>> => derived = <<0, 5000, 0>>

\* the form over a sale of 21.52 alone: tax base 21.52 and tax 4.09
C12_Witness ==
    /\ Len(pit38) = 1
    /\ pit38[1].data.field34_income = 2152
    /\ pit38[1].data.field35_costs_current_year = 0
    /\ pit38[1].data.field36_costs_previous_years = 0
    /\ pit38[1].data.field39_tax = 409

\* C13: in every Pit38Data the tax base and the loss are not negative, at
\* least one of them is 0.00, their difference is field 34 - (field 35 +
\* field 36), and the tax is 0.00 whenever the tax base is 0.00.
C13_FormInvariants ==
    \A c \in DOMAIN pit38 :
        LET data == pit38[c].data
        IN  /\ data.field37_tax_base >= 0
            /\ data.field38_loss >= 0
            /\ data.field37_tax_base = 0 \/ data.field38_loss = 0
            /\ data.field37_tax_base - data.field38_loss = NetOf(data)
            /\ data.field37_tax_base = 0 => data.field39_tax = 0

\* the form of a year with more costs than income: a loss and no tax
C13_Witness ==
    /\ Len(pit38) = 1
    /\ pit38[1].data.field35_costs_current_year > pit38[1].data.field34_income
    /\ pit38[1].data.field34_income > 0
    /\ pit38[1].data.field38_loss > 0
    /\ pit38[1].data.field37_tax_base = 0

\* C14: every field of the form is rounded to cents by the one rule
\* round-half-to-even: fields 34, 35 and 36 from the exact sums and the
\* carry-forward, fields 37 and 38 from the net, field 39 from net x 0.19; an
\* income sum of 0.125 gives field 34 = 0.12, a net of 1.50 gives tax 0.28.
C14_HalfEvenEverywhere ==
    \A c \in DOMAIN pit38 :
        LET data == pit38[c].data
            net == NetOf(data)
            income == SumAt(PositionsOf(pit38[c].for_year, SellSpellings))
            costs == SumAt(PositionsOf(pit38[c].for_year, BuySpellings))
        IN  /\ HalfEvenCents(income, data.field34_income)
            /\ HalfEvenCents(costs, data.field35_costs_current_year)
            /\ HalfEvenCents(pit38[c].carry, data.field36_costs_previous_years)
            /\ HalfEvenCents(100 * (IF net > 0 THEN net ELSE 0), data.field37_tax_base)
            /\ HalfEvenCents(100 * (IF net > 0 THEN 0 ELSE Abs(net)), data.field38_loss)
            /\ HalfEvenCents(IF net > 0 THEN net * 19 ELSE 0, data.field39_tax)
            /\ income = 1250 => data.field34_income = 12
            /\ net = 150 => data.field39_tax = 28

\* the form over a sale of 0.125 alone: the tie goes down to 0.12
C14_Witness ==
    /\ Len(pit38) = 1
    /\ pit38[1].for_year = 2
    /\ SumAt(PositionsOf(2, SellSpellings)) = 1250
    /\ pit38[1].data.field34_income = 12

\* C18: no form is produced from a negative carry-forward: field 36 of every
\* result of calculate_pit_38 is 0.00 or more.
C18_CarryNeverNegative ==
    \A c \in DOMAIN pit38 :
        pit38[c].data.field36_costs_previous_years >= 0

\* The permutations of 1..n for every length n of a list of tax transactions
PermutationsOf ==
    [n \in 0..MaxTaxTrades |->
        {f \in [1..n -> 1..n] : \A i, j \in 1..n : f[i] = f[j] => i = j}]

\* C15: the form does not depend on the order of the tax transactions: for
\* every permutation of the list, with the same year and carry-forward, every
\* field of the result is the same.
C15_OrderIndependent ==
    \A c \in DOMAIN pit38 :
        \A f \in PermutationsOf[Len(tax_transactions)] :
            calculate_pit_38([k \in 1..Len(tax_transactions) |-> tax_transactions[f[k]]],
                             pit38[c].for_year, pit38[c].carry)
                = pit38[c].data

\* the form of year 2 over a purchase of year 1 followed by a sale and a
\* purchase of year 2 with different converted costs
C15_Witness ==
    /\ Len(pit38) = 1
    /\ pit38[1].for_year = 2
    /\ Len(tax_transactions) = 3
    /\ YearOf(tax_transactions[1].transaction.timestamp) = 1
    /\ tax_transactions[2].transaction.trade_type = SELL
    /\ tax_transactions[3].transaction.trade_type = BUY
    /\ YearOf(tax_transactions[2].transaction.timestamp) = 2
    /\ YearOf(tax_transactions[3].transaction.timestamp) = 2
    /\ tax_transactions[2].total_cost_tax_currency
          # tax_transactions[3].total_cost_tax_currency
    /\ pit38[1].data.field34_income > 0
    /\ pit38[1].data.field35_costs_current_year > 0

\* The trade is skipped by the matching: quoted in PLN, or in a currency
\* without rate table
IsSkipped(t) == t.quote_currency = "PLN" \/ HasNoTable(t)

\* C16: skipped trades never reach the aggregation: the form computed from
\* the matching of a trade list equals the form computed from the matching
\* of the list without its skipped trades (quoted in PLN, or in a currency
\* without rate table), for the same rates, offset, year and carry-forward.
C16_SkippedNeverAggregated ==
    \A c \in DOMAIN pit38 :
        LET kept == SelectSeq(transactions, LAMBDA t : ~IsSkipped(t))
            whole == create_tax_transactions(transactions, rates_by_currency,
                                             settlement_day)
            part == create_tax_transactions(kept, rates_by_currency, settlement_day)
        IN  /\ whole.err = None
            /\ whole.result = tax_transactions
            /\ part.err = None
            /\ calculate_pit_38(part.result, pit38[c].for_year, pit38[c].carry)
                  = pit38[c].data
            /\ \A k \in DOMAIN tax_transactions :
                  ~IsSkipped(tax_transactions[k].transaction)

\* the form of year 1 over a trade list holding a skipped PLN purchase and a
\* matched EUR purchase
C16_Witness ==
    /\ Len(pit38) = 1
    /\ pit38[1].for_year = 1
    /\ \E k \in DOMAIN transactions :
          /\ transactions[k].quote_currency = "PLN"
          /\ YearOf(transactions[k].timestamp) = 1
    /\ Len(tax_transactions) = 1
    /\ tax_transactions[1].transaction.quote_currency = "EUR"
    /\ pit38[1].data.field35_costs_current_year > 0

\* The windows requested for a currency so far, in the order of the requests
WindowsOf(currency) == SelectSeq(nbp.requests, LAMBDA r : r.currency = currency)

\* The windows requested so far for each currency start a week before its
\* earliest trade date, follow one another without gap or overlap, are at
\* most WindowDays days long and end by its latest trade date, which the last
\* one has reached when the call returns; none is requested for PLN
WindowsTileTheRange ==
    \A c \in Currencies :
        LET w == WindowsOf(c)
            dates == DatesOf(transactions, c)
        IN  /\ (c = "PLN" \/ dates = {}) => w = <<>>
            /\ \A i \in DOMAIN w :
                  /\ w[i].chunk_start <= w[i].chunk_end
                  /\ (w[i].chunk_end - w[i].chunk_start) + 1 <= WindowDays
                  /\ w[i].chunk_end <= MaxOf(dates)
                  /\ i = 1 => w[i].chunk_start = MinOf(dates) - MarginDays
                  /\ i > 1 => w[i].chunk_start = w[i - 1].chunk_end + 1
            /\ (nbp.pc = "returned" /\ c # "PLN" /\ dates # {})
                  => /\ w # <<>>
                     /\ w[Len(w)].chunk_end = MaxOf(dates)

\* C20: for each non-PLN quote currency of the trade list the chunk loop of
\* get_rates_for_transactions terminates, and the windows it requests are
\* consecutive, do not overlap, are at most 367 days long and together are
\* exactly the range from 7 days before the earliest trade date of the
\* currency to its latest trade date; no window is requested for PLN.
C20_ChunkWindows == []WindowsTileTheRange /\ <>(nbp.pc = "returned")

\* the call returned after three windows for EUR, the first two of them
\* WindowDays long and the third ending on the latest trade date
C20_Witness ==
    /\ nbp.pc = "returned"
    /\ Len(WindowsOf("EUR")) = 3
    /\ WindowsOf("EUR")[1].chunk_end - WindowsOf("EUR")[1].chunk_start = WindowDays - 1
    /\ WindowsOf("EUR")[2].chunk_end - WindowsOf("EUR")[2].chunk_start = WindowDays - 1
    /\ WindowsOf("EUR")[3].chunk_end = MaxOf(DatesOf(transactions, "EUR"))

\* The row has a malformed or missing numeric field, date or column
IsMalformed(row) ==
    \/ row.price # "number"
    \/ row.date # "valid"
    \/ ~row.fee_column

\* C17: when a row of the trades file has a malformed or missing numeric
\* field, date or column, the load raises and process_pit38_tax stops before
\* the rates are fetched: no trade list, no tax transaction and no form is
\* ever computed from the rows that did parse.
C17_MalformedRowStopsRun ==
    (\E k \in DOMAIN rows : IsMalformed(rows[k]))
        => /\ pc \in {"load", "stopped"}
           /\ transactions = <<>>
           /\ nbp.pc = "idle"
           /\ tax_transactions = <<>>
           /\ pit38 = <<>>

\* The trades that needed a rate and were skipped for lack of one
SkippedForLackOfRate ==
    {k \in DOMAIN transactions :
        /\ transactions[k].quote_currency # "PLN"
        /\ \A j \in DOMAIN tax_transactions :
              tax_transactions[j].transaction.trade_id # transactions[k].trade_id}

\* The lines of output that state the number of loaded trades, the number
\* of processed trades or the form itself
IsCountOrForm(message) ==
    message.text \in {"Successfully loaded trades", "Mapped transactions with rates",
                      "PIT-38 Calculations for Tax Year"}

\* C19: when the form is presented after trades were skipped for lack of a
\* rate, the output states their number M in a line of its own, apart from
\* the number N of processed trades.
C19_SkippedCountReported ==
    (pc = "presented" /\ SkippedForLackOfRate # {})
        => \E k \in DOMAIN output :
              /\ ~IsCountOrForm(output[k])
              /\ output[k].n = Cardinality(SkippedForLackOfRate)

\* The dates of table on or before day
KeysUpTo(table, day) == {d \in DOMAIN table : d <= day}

\* The number of entries asked for: max(1, |s|)
Required(s) == IF Abs(s) < 1 THEN 1 ELSE Abs(s)

KeptTrades ==
    SelectSeq(transactions,
              LAMBDA t : /\ t.quote_currency # "PLN"
                         /\ rates_by_currency[t.quote_currency].present
                         /\ DOMAIN TableOf(t) # {})

ReturnedDates(currency) ==
    UNION {WindowsOf(currency)[i].rate_dates : i \in DOMAIN WindowsOf(currency)}

\* C28: a failed chunk request does not discard the rates of the other
\* chunks of the same currency: a currency is a key of the returned mapping
\* exactly when at least one of its chunks returned a rate, its table is the
\* union of the successful chunks, and a currency all of whose chunks failed
\* is absent from the mapping, not mapped to an empty table.
C28_FailedChunkKeepsOthers ==
    /\ nbp.pc = "chunks" => DOMAIN nbp.all_rates = ReturnedDates(nbp.currency)
    /\ nbp.pc = "returned" =>
          \A c \in Currencies :
              /\ rates_by_currency[c].present <=> ReturnedDates(c) # {}
              /\ DOMAIN rates_by_currency[c].rates = ReturnedDates(c)
              /\ \A d \in ReturnedDates(c) :
                    rates_by_currency[c].rates[d] = ExchangeRate(c, d)
    /\ \A c \in Currencies :
          rates_by_currency[c].present => DOMAIN rates_by_currency[c].rates # {}

\* the call returned a EUR table holding the rates of the first window, which
\* was answered, after the second window failed
C28_Witness ==
    /\ nbp.pc = "returned"
    /\ Len(WindowsOf("EUR")) >= 2
    /\ WindowsOf("EUR")[1].rate_dates # {}
    /\ WindowsOf("EUR")[2].rate_dates = {}
    /\ rates_by_currency["EUR"].present
    /\ DOMAIN rates_by_currency["EUR"].rates = WindowsOf("EUR")[1].rate_dates

\* The accounts of a dictionary whose label is among chosen_accounts
KeysLabelled(accounts, platform, chosen_accounts) ==
    {k \in DOMAIN accounts : Label(platform, accounts[k]) \in chosen_accounts}

\* What the user chose in a call of handle_download_trades: every label for
\* 'All Accounts', the ticked accounts otherwise
ChosenIn(h) == IF h.selection = "All Accounts" THEN h.choices ELSE h.boxes

\* C22: filter_selected_accounts returns a new configuration holding exactly
\* the Kraken and Binance accounts whose label is in chosen (all of them for
\* 'All Accounts') and leaves the account dictionaries of the original
\* configuration unchanged, so every later menu action is called with every
\* configured account.
C22_FilterReturnsRestrictedCopy ==
    /\ menu.config = menu.original
    /\ \A i \in 1..Len(menu.calls) : menu.calls[i].config = menu.original
    /\ \A i \in 1..Len(menu.handled) :
        LET h == menu.handled[i]
        IN  \A j \in 1..Len(h.downloads) :
                LET working_config == h.downloads[j]
                    kept_kraken == KeysLabelled(menu.original.kraken_accounts,
                                                "Kraken", ChosenIn(h))
                    kept_binance == KeysLabelled(menu.original.binance_accounts,
                                                 "Binance", ChosenIn(h))
                IN  /\ DOMAIN working_config.kraken_accounts = kept_kraken
                    /\ DOMAIN working_config.binance_accounts = kept_binance
                    /\ \A k \in kept_kraken :
                        working_config.kraken_accounts[k]
                            = menu.original.kraken_accounts[k]
                    /\ \A k \in kept_binance :
                        working_config.binance_accounts[k]
                            = menu.original.binance_accounts[k]

\* A download for one ticked account out of three configured ones was followed
\* by a second menu action, which was called with all three accounts
C22_Witness ==
    /\ Len(menu.calls) = 2
    /\ Len(menu.handled) >= 1
    /\ menu.handled[1].selection = "Select Specific Accounts"
    /\ Len(menu.handled[1].downloads) = 1
    /\ DOMAIN menu.handled[1].downloads[1].kraken_accounts = {"k2"}
    /\ DOMAIN menu.handled[1].downloads[1].binance_accounts = {}
    /\ DOMAIN menu.calls[2].config.kraken_accounts = KrakenKeys
    /\ DOMAIN menu.calls[2].config.binance_accounts = BinanceKeys

\* C23: handle_download_trades calls the download function at most once, only
\* with a configuration that has an account and only after the user chose 'All
\* Accounts' or ticked at least one account; when it returns, it returns True
\* exactly when the download function was called (an exception of the download
\* function leaves the handler, which then returns nothing); it never calls the
\* download function after 'Back to Main Menu', with no account ticked or with
\* no account configured.
C23_DownloadCalledOnceWhenChosen ==
    \A i \in 1..Len(menu.handled) :
        LET h == menu.handled[i]
            called == Len(h.downloads) >= 1
        IN  /\ Len(h.downloads) <= 1
            /\ called => /\ hasAnyAccounts(h.downloads[1])
                         /\ \/ h.selection = "All Accounts"
                            \/ /\ h.selection = "Select Specific Accounts"
                               /\ h.boxes # {}
            /\ h.result \in {"True", None} => (h.result = "True" <=> called)
            /\ h.result \notin {"True", None} => called
            /\ h.selection = "Back to Main Menu" => ~called
            /\ (h.selection = "Select Specific Accounts" /\ h.boxes = {}) => ~called
            /\ h.choices = {} => ~called

\* The handler went back to the main menu without a download and, called
\* again, downloaded for all accounts and returned True
C23_Witness ==
    /\ Len(menu.handled) = 2
    /\ menu.handled[1].selection = "Back to Main Menu"
    /\ menu.handled[1].downloads = <<>>
    /\ menu.handled[1].result = None
    /\ menu.handled[2].selection = "All Accounts"
    /\ Len(menu.handled[2].downloads) = 1
    /\ menu.handled[2].result = "True"

\* The function that a menu selection calls
CalledFor(action) ==
    IF action = "Download Trades" THEN "handle_download_trades" ELSE "process_tax_fn"

RECURSIVE ExpectedCalls(_)
\* The functions that a sequence of selections calls, in order
ExpectedCalls(selections) ==
    IF selections = <<>> THEN <<>>
    ELSE IF Head(selections) \in {"Download Trades", "Calculate Tax (PL Only)"}
    THEN <<CalledFor(Head(selections))>> \o ExpectedCalls(Tail(selections))
    ELSE ExpectedCalls(Tail(selections))

\* The selections whose action has been carried out
Served ==
    IF menu.pc \in {"download", "tax", "exit"}
    THEN SubSeq(menu.selections, 1, Len(menu.selections) - 1)
    ELSE menu.selections

\* The calls made by interactive_menu are those of the selections served, in
\* order and with the original configuration; exit_fn(0) is called once, for a
\* final 'Exit', and never after a KeyboardInterrupt
C21_CallsFollowSelections ==
    /\ [i \in 1..Len(menu.calls) |-> menu.calls[i].fn] = ExpectedCalls(Served)
    /\ \A i \in 1..Len(menu.calls) : menu.calls[i].config = menu.original
    /\ \A i \in 1..(Len(menu.selections) - 1) : menu.selections[i] # "Exit"
    /\ \A i \in 1..(Len(menu.calls) - 1) : menu.calls[i].outcome = "returns"
    /\ menu.pc = "exited" <=> menu.exits = <<0>>
    /\ menu.pc # "exited" => menu.exits = <<>>
    /\ menu.pc = "exited" => menu.selections[Len(menu.selections)] = "Exit"
    /\ menu.pc = "interrupted" <=>
        /\ menu.calls # <<>>
        /\ menu.calls[Len(menu.calls)].outcome = "KeyboardInterrupt"

\* An action that returns is followed by the prompt of the main menu, and no
\* step follows exit_fn or a KeyboardInterrupt
C21_ReturnsToMenu ==
    /\ menu.pc \notin {"exited", "interrupted"}
    /\ (menu.pc \in {"download", "tax"}
        /\ menu'.calls[Len(menu'.calls)].outcome = "returns") => menu'.pc = "menu"
    /\ menu.pc \in {"download", "tax"} => Len(menu'.calls) = Len(menu.calls) + 1
    /\ menu.pc \in {"menu", "exit"} => menu'.calls = menu.calls

\* C21: for any sequence of menu selections ending with 'Exit',
\* interactive_menu calls handle_download_trades(config) once per 'Download
\* Trades' and process_tax_fn(config) once per 'Calculate Tax (PL Only)', in
\* selection order and with the original config, returns to the main menu
\* after each of them, and then calls exit_fn(0) exactly once; a
\* KeyboardInterrupt raised by an action ends the loop without a call of
\* exit_fn.
C21_MenuCallsInSelectionOrder ==
    [](C21_CallsFollowSelections) /\ [][C21_ReturnsToMenu]_menu

\* 'Download Trades', 'Calculate Tax (PL Only)' and 'Exit' were selected in
\* this order: both actions were called and returned, then exit_fn(0) was
\* called
C21_Witness ==
    /\ menu.pc = "exited"
    /\ menu.selections = <<"Download Trades", "Calculate Tax (PL Only)", "Exit">>
    /\ Len(menu.calls) = 2
    /\ menu.calls[1].fn = "handle_download_trades"
    /\ menu.calls[2].fn = "process_tax_fn"
    /\ menu.exits = <<0>>

RECURSIVE TradesReceived(_)
\* The trades of a sequence of responses, in the order received
TradesReceived(responses) ==
    IF responses = <<>> THEN <<>>
    ELSE TradesReceived(SubSeq(responses, 1, Len(responses) - 1))
         \o responses[Len(responses)].trades

\* C29: the offset sent with each trades-history request is the number of
\* trades received in all earlier responses, each received trade has become
\* exactly one Transaction, the loop ends at the first response without trades,
\* whether or not it reports an error, and the transactions collected so far
\* are then returned.
C29_OffsetIsTradesReceived ==
    /\ Len(kraken.offsets) = Len(kraken.responses)
    /\ \A i \in 1..Len(kraken.offsets) :
        kraken.offsets[i] = Len(TradesReceived(SubSeq(kraken.responses, 1, i - 1)))
    /\ Len(kraken.transactions) = Len(TradesReceived(kraken.responses))
    /\ \A n \in 1..Len(kraken.transactions) :
        /\ kraken.transactions[n].trade_id = TradesReceived(kraken.responses)[n].trade_id
        /\ kraken.transactions[n].trading_pair = TradesReceived(kraken.responses)[n].pair
    /\ \A i \in 1..(Len(kraken.responses) - 1) : kraken.responses[i].trades # <<>>
    /\ kraken.pc = "returned" <=>
        /\ kraken.responses # <<>>
        /\ kraken.responses[Len(kraken.responses)].trades = <<>>
    /\ kraken.pc = "returned" => kraken.returned = kraken.transactions

\* Two trades, one trade and then an error without trades were received at the
\* offsets 0, 2 and 3, and the three transactions were returned
C29_Witness ==
    /\ kraken.pc = "returned"
    /\ kraken.offsets = <<0, 2, 3>>
    /\ Len(kraken.responses[1].trades) = 2
    /\ Len(kraken.responses[2].trades) = 1
    /\ kraken.responses[3].error
    /\ kraken.responses[3].trades = <<>>
    /\ Len(kraken.returned) = 3

\* The id of the last trade in a list of trades, NoId for the empty list
LastReceived(symbol_txns) ==
    IF symbol_txns = <<>> THEN NoId ELSE LastId(symbol_txns[Len(symbol_txns)])

\* A step of the thread that downloads symbol s: a request is sent only while
\* fewer than max_retries errors were met and asks for the trades from the
\* last id received on; the rate-limit error alone leads to another request,
\* with the trades and the last id kept; any other error but the timestamp
\* error returns the trades collected; the timestamp error alone returns
\* nothing and sets the abort flag and the shutdown event
C27_Step(s) ==
    LET f == binance.futures[s]
        g == binance'.futures[s]
        flags == <<binance.abort_processing, binance.shutdown_event>>
        flags_after == <<binance'.abort_processing, binance'.shutdown_event>>
    IN  /\ (f.pc # "request" /\ g.pc = "request") =>
            /\ f.retries < max_retries
            /\ g.fromId = LastReceived(f.symbol_txns)
            /\ g.symbol_txns = f.symbol_txns
        /\ (f.pc = "request" /\ g.pc # "request") =>
            CASE g.code = RateLimitError ->
                    /\ g.pc = "head"
                    /\ g.retries = f.retries + 1
                    /\ g.symbol_txns = f.symbol_txns
                    /\ g.last_trade_id = f.last_trade_id
                    /\ flags_after = flags
              [] g.code = TimestampError ->
                    /\ g.pc = "post"
                    /\ g.returned = <<>>
                    /\ flags_after = <<TRUE, TRUE>>
              [] g.code = NoError ->
                    /\ g.pc \in {"after", "post"}
                    /\ g.retries = f.retries
                    /\ SubSeq(g.symbol_txns, 1, Len(f.symbol_txns)) = f.symbol_txns
                    /\ g.pc = "post" => g.returned = f.symbol_txns
                    /\ flags_after = flags
              [] OTHER ->
                    /\ g.pc = "post"
                    /\ g.returned = f.symbol_txns
                    /\ flags_after = flags
        /\ (f.pc = "head" /\ f.retries = max_retries /\ g # f) =>
            /\ g.pc = "post"
            /\ g.returned = f.symbol_txns
        /\ (f.pc \in {"head", "after"} /\ g.pc = "post") =>
            g.returned = f.symbol_txns
        /\ (g # f /\ flags_after # flags) =>
            (f.pc = "request" /\ g.code = TimestampError)

\* C27: get_trades_for_symbol retries only on the rate-limit error (-1003) and
\* stops after the 5th one, returning the trades collected so far; each retry
\* resumes from the last trade id received and keeps the trades collected; any
\* other API error ends the download of the symbol at once with the trades
\* collected so far, and only -1021 discards them and sets the abort flag and
\* the shutdown event.
C27_RetriesOnlyOnRateLimit ==
    /\ [](\A s \in Symbols : binance.futures[s].retries <= max_retries)
    /\ [][\A s \in Symbols : C27_Step(s)]_binance

\* After a response of limit trades the next five requests, each from the id
\* of the last trade received, met the rate-limit error, and the trades of the
\* first response were returned
C27_Witness ==
    \E s \in Symbols :
        /\ binance.futures[s].pc = "post"
        /\ binance.futures[s].retries = max_retries
        /\ binance.futures[s].code = RateLimitError
        /\ binance.futures[s].fromId = PageLimit - 1
        /\ binance.futures[s].returned = <<Page(s, 0, PageLimit)>>

\* C25: download_all_trades is all-or-nothing under the timestamp error: in
\* every interleaving of the worker threads, when a request of a worker has
\* failed with code -1021, or abort_processing was set when the call started,
\* the call returns the empty list, never the trades collected from other
\* symbols.
C25_AbortReturnsNothing ==
    (binance.pc = "returned" /\ (binance.timestamp_error \/ binance.abort_at_start))
        => binance.returned = <<>>

\* The trades of one symbol were added to self.transactions, a request for
\* another symbol failed with the timestamp error, and the call returned the
\* empty list
C25_Witness ==
    /\ binance.pc = "returned"
    /\ binance.timestamp_error
    /\ binance.transactions # <<>>
    /\ binance.returned = <<>>

\* The orders in which the futures may complete
CompletionOrders ==
    {order \in [1..Cardinality(Symbols) -> Symbols] :
        \A i, j \in 1..Cardinality(Symbols) : order[i] = order[j] => i = j}

RECURSIVE ResultsIn(_)
\* The transactions of the symbols' trades, symbol after symbol
ResultsIn(order) ==
    IF order = <<>> THEN <<>>
    ELSE TransactionsFrom(binance.futures[Head(order)].returned)
         \o ResultsIn(Tail(order))

\* C26: when no timestamp error occurs, the list returned by
\* download_all_trades holds the transactions of the trades returned for each
\* symbol of pair_mapping exactly once, symbol after symbol: in no
\* interleaving of the workers is a symbol's result lost, duplicated or mixed
\* with another symbol's.
C26_EachSymbolOnce ==
    (binance.pc = "returned" /\ ~binance.timestamp_error /\ ~binance.abort_at_start)
        => \E order \in CompletionOrders : binance.returned = ResultsIn(order)

\* Three symbols were downloaded without a timestamp error; the second symbol,
\* with trades in two responses, completed first and the first symbol, with one
\* trade, after it
C26_Witness ==
    /\ binance.pc = "returned"
    /\ ~binance.timestamp_error
    /\ Len(binance.pair_mapping) = 3
    /\ Len(binance.returned) = 3
    /\ binance.returned[1].trading_pair = binance.pair_mapping[2]
    /\ binance.returned[2].trading_pair = binance.pair_mapping[2]
    /\ binance.returned[3].trading_pair = binance.pair_mapping[1]

====
